---- MODULE Spec2Model ----
(***************************************************************************)
(* A model of the ray tracer: the Intersections collection (sorting, hit   *)
(* selection, the refraction-stack walk of prepare_computations), the      *)
(* recursive shading of World (color_at / shade_hit / reflected_color /    *)
(* refracted_color / is_shadowed), the render loop of Camera, the Canvas   *)
(* it writes into, and the identity of primitives.                         *)
(*                                                                         *)
(* Numbers.  Every f64 of the program is a fixed-point integer counted in  *)
(* ticks of 1/Unit, or the value NaN.  EPSILON is two ticks.               *)
(*                                                                         *)
(* Geometry.  The recursive shading is modelled on the scenes whose        *)
(* primitives are planes perpendicular to one axis (the y axis of the      *)
(* program, as in color_at_with_mutually_reflective_surfaces) and whose    *)
(* rays run along that axis: a point is its coordinate on the axis, a      *)
(* direction is +Unit, -Unit, 0 (a ray parallel to the planes) or NaN (the *)
(* normalisation of a zero vector).                                        *)
(***************************************************************************)
EXTENDS Integers, Sequences, FiniteSets, Bags, TLC

(***************************************************************************)
(* f64 arithmetic                                                          *)
(***************************************************************************)
Unit == 100

NaN == -999999

EPSILON == 2

IsNaN(x) == x = NaN

FEq(a, b) == ~IsNaN(a) /\ ~IsNaN(b) /\ a = b

FLt(a, b) == ~IsNaN(a) /\ ~IsNaN(b) /\ a < b

FGt(a, b) == ~IsNaN(a) /\ ~IsNaN(b) /\ a > b

FLe(a, b) == ~IsNaN(a) /\ ~IsNaN(b) /\ a <= b

FNeg(a) == IF IsNaN(a) THEN NaN ELSE 0 - a

FAbs(a) == IF IsNaN(a) THEN NaN ELSE IF a < 0 THEN 0 - a ELSE a

FAdd(a, b) == IF IsNaN(a) \/ IsNaN(b) THEN NaN ELSE a + b

FSub(a, b) == IF IsNaN(a) \/ IsNaN(b) THEN NaN ELSE a - b

\* truncating division of integers (rounds toward zero)
TruncDiv(a, b) ==
    IF (a >= 0) = (b > 0) \/ a = 0
    THEN (IF a >= 0 THEN a ELSE 0 - a) \div (IF b > 0 THEN b ELSE 0 - b)
    ELSE 0 - ((IF a >= 0 THEN a ELSE 0 - a) \div (IF b > 0 THEN b ELSE 0 - b))

FMul(a, b) == IF IsNaN(a) \/ IsNaN(b) THEN NaN ELSE TruncDiv(a * b, Unit)

\* a / b; 0/0 is NaN.  No caller divides a non-zero value by zero.
FDiv(a, b) ==
    IF IsNaN(a) \/ IsNaN(b) \/ b = 0 THEN NaN ELSE TruncDiv(a * Unit, b)

\* f64::partial_cmp
PartialCmp(a, b) ==
    IF IsNaN(a) \/ IsNaN(b) THEN "None"
    ELSE IF a < b THEN "Less"
    ELSE IF a > b THEN "Greater"
    ELSE "Equal"

(***************************************************************************)
(* Color                                                                   *)
(***************************************************************************)
Color(r, g, b) == <<r, g, b>>

new_black == Color(0, 0, 0)

new_white == Color(Unit, Unit, Unit)

ColorAdd(c, d) == <<FAdd(c[1], d[1]), FAdd(c[2], d[2]), FAdd(c[3], d[3])>>

ColorScale(c, k) == <<FMul(c[1], k), FMul(c[2], k), FMul(c[3], k)>>

ColorMul(c, d) == <<FMul(c[1], d[1]), FMul(c[2], d[2]), FMul(c[3], d[3])>>

(***************************************************************************)
(* Material, primitives                                                    *)
(***************************************************************************)
MaterialDefault ==
    [color |-> new_white, ambient |-> 10, diffuse |-> 90, specular |-> 90,
     shininess |-> 200, reflective |-> 0, transparency |-> 0,
     refractive_index |-> Unit]

set_reflective(m, v) == [m EXCEPT !.reflective = v]

set_transparency(m, v) == [m EXCEPT !.transparency = v]

set_refractive_index(m, v) == [m EXCEPT !.refractive_index = v]

set_color(m, c) == [m EXCEPT !.color = c]

set_ambient(m, v) == [m EXCEPT !.ambient = v]

\* A primitive: its id, its transform (a translation along the axis) and
\* its material.
Shape(id, pos, material) == [id |-> id, transform |-> pos, material |-> material]

\* PartialEq for dyn Shape
ShapeEq(a, b) == a.id = b.id

(***************************************************************************)
(* Intersection, Intersections                                             *)
(***************************************************************************)
Intersection(t, object) == [t |-> t, object |-> object]

\* PartialEq for Intersection
IntersectionEq(a, b) == FEq(a.t, b.t) /\ ShapeEq(a.object, b.object)

RECURSIVE InsertByT(_, _)
\* the stable insertion of x into the sorted sequence s: x goes behind every
\* entry that does not compare Greater
InsertByT(s, x) ==
    IF s = <<>> THEN <<x>>
    ELSE IF PartialCmp(Head(s).t, x.t) = "Greater" THEN <<x>> \o s
    ELSE <<Head(s)>> \o InsertByT(Tail(s), x)

\* the vector kept in the order it was given
Unsorted(v) == v

RECURSIVE SortByT(_)
\* Vec::sort_by(|a, b| a.t.partial_cmp(&b.t).unwrap()): a stable sort
SortByT(v) ==
    IF v = <<>> THEN <<>>
    ELSE InsertByT(SortByT(SubSeq(v, 1, Len(v) - 1)), v[Len(v)])

\* partial_cmp(..).unwrap() panics on the first comparison that involves a
\* NaN; every entry of a vector of two or more is compared at least once
SortPanics(v) == Len(v) >= 2 /\ \E i \in 1..Len(v) : IsNaN(v[i].t)

\* Intersections::new (defined when the sort does not panic)
IntersectionsNew(v) == SortByT(v)

RECURSIVE HitFromNonNegative(_, _)
\* the first entry whose t is not negative
HitFromNonNegative(data, i) ==
    IF i > Len(data) THEN 0
    ELSE IF FLe(0, data[i].t) THEN i
    ELSE HitFromNonNegative(data, i + 1)

RECURSIVE HitFrom(_, _)
HitFrom(data, i) ==
    IF i > Len(data) THEN 0
    ELSE IF FGt(data[i].t, 0) THEN i
    ELSE HitFrom(data, i + 1)

\* the first entry, whatever its t
HitFirst(data) == IF Len(data) > 0 THEN 1 ELSE 0

\* Intersections::hit: the index of the entry returned, 0 for None
Hit(data) == HitFrom(data, 1)

Contains(containers, object) ==
    \E j \in 1..Len(containers) : ShapeEq(containers[j], object)

RECURSIVE Without(_, _)
\* containers.into_iter().filter(|item| item != &object).collect()
Without(containers, object) ==
    IF containers = <<>> THEN <<>>
    ELSE IF ShapeEq(Head(containers), object) THEN Without(Tail(containers), object)
    ELSE <<Head(containers)>> \o Without(Tail(containers), object)

\* the refractive index of the oldest container
TopIndexFirst(containers) ==
    IF containers = <<>> THEN Unit
    ELSE containers[1].material.refractive_index

\* containers.last(): 1.0 outside every object
TopIndex(containers) ==
    IF containers = <<>> THEN Unit
    ELSE containers[Len(containers)].material.refractive_index

RECURSIVE Walk(_, _, _, _, _, _)
\* the loop of prepare_computations over xs.data(), from entry i on
Walk(data, self, i, containers, n1, n2) ==
    IF i > Len(data) THEN [n1 |-> n1, n2 |-> n2]
    ELSE LET cur == data[i]
             n1a == IF IntersectionEq(cur, self) THEN TopIndex(containers) ELSE n1
             c2 == IF Contains(containers, cur.object)
                   THEN Without(containers, cur.object)
                   ELSE Append(containers, cur.object)
         IN  IF IntersectionEq(cur, self)
             THEN [n1 |-> n1a, n2 |-> TopIndex(c2)]
             ELSE Walk(data, self, i + 1, c2, n1a, n2)

\* a walk that never meets its target: n1 and n2 keep f64::NAN
IndicesNeverAssigned(self, data) == [n1 |-> NaN, n2 |-> NaN]

\* the n1 and n2 of prepare_computations
RefractiveIndices(self, data) == Walk(data, self, 1, <<>>, NaN, NaN)

(***************************************************************************)
(* Tuple algebra on the axis, Ray                                          *)
(***************************************************************************)
Dot(a, b) == FMul(a, b)

Magnitude(v) == FAbs(v)

\* v / |v|: the zero vector normalises to NaN
Normalize(v) == FDiv(v, Magnitude(v))

\* self - normal * 2 * dot(self, normal)
Reflect(v, normal) == FSub(v, FMul(FMul(normal, 2 * Unit), Dot(v, normal)))

Ray(origin, direction) == [origin |-> origin, direction |-> direction]

\* Ray::position
Position(ray, t) == FAdd(ray.origin, FMul(ray.direction, t))

\* Ray::transform by the inverse of a translation
RayTransformInverse(ray, transform) ==
    Ray(FSub(ray.origin, transform), ray.direction)

RECURSIVE ISqrtIn(_, _, _)
\* the largest r in lo..hi with r * r <= n, by bisection
ISqrtIn(n, lo, hi) ==
    IF lo >= hi THEN lo
    ELSE LET mid == (lo + hi + 1) \div 2
         IN  IF mid * mid <= n THEN ISqrtIn(n, mid, hi) ELSE ISqrtIn(n, lo, mid - 1)

\* f64::sqrt in fixed point (NaN for a negative argument)
FSqrt(x) == IF IsNaN(x) \/ x < 0 THEN NaN ELSE ISqrtIn(x * Unit, 0, x + Unit)

RECURSIVE Powi(_, _)
\* x to the power n by repeated squaring
Powi(x, n) ==
    IF n = 0 THEN Unit
    ELSE IF n % 2 = 0 THEN LET h == Powi(x, n \div 2) IN FMul(h, h)
    ELSE FMul(x, Powi(x, n - 1))

\* f64::powf for the whole exponents the program passes (2, 5, shininess)
Powf(x, n) == Powi(x, n)

(***************************************************************************)
(* Plane, Shape                                                            *)
(***************************************************************************)
\* Plane::local_intersect: None is the empty vector
PlaneLocalIntersect(shape, ray) ==
    IF FLt(FAbs(ray.direction), EPSILON) THEN <<>>
    ELSE <<Intersection(FDiv(FNeg(ray.origin), ray.direction), shape)>>

\* Shape::intersect
ShapeIntersect(shape, ray) ==
    PlaneLocalIntersect(shape, RayTransformInverse(ray, shape.transform))

\* Plane::local_normal_at
PlaneLocalNormalAt(shape, local_point) == Unit

\* Shape::normal_at: a translation leaves the normal as it is
NormalAt(shape, world_point) ==
    Normalize(PlaneLocalNormalAt(shape, FSub(world_point, shape.transform)))

(***************************************************************************)
(* prepare_computations                                                    *)
(***************************************************************************)
PrepareComputations(self, ray, data) ==
    LET point == Position(ray, self.t)
        normal0 == NormalAt(self.object, point)
        eyev == FNeg(ray.direction)
        inside == FLt(Dot(normal0, eyev), 0)
        normalv == IF inside THEN FNeg(normal0) ELSE normal0
        n == RefractiveIndices(self, data)
    IN  [t |-> self.t, object |-> self.object, point |-> point,
         over_point |-> FAdd(point, FMul(normalv, EPSILON)),
         under_point |-> FSub(point, FMul(normalv, EPSILON)),
         normalv |-> normalv, eyev |-> eyev,
         reflectv |-> Reflect(ray.direction, normalv),
         inside |-> inside, n1 |-> n.n1, n2 |-> n.n2]

\* a schlick without the return under total internal reflection: the square
\* root of a negative number carries on as NaN
SchlickWithoutReturn(comps) ==
    LET cos == Dot(comps.eyev, comps.normalv)
        n == FDiv(comps.n1, comps.n2)
        sin2_t == FMul(Powf(n, 2), FSub(Unit, Powf(cos, 2)))
        cos2 == IF FGt(comps.n1, comps.n2) THEN FSqrt(FSub(Unit, sin2_t)) ELSE cos
        r0 == Powf(FDiv(FSub(comps.n1, comps.n2), FAdd(comps.n1, comps.n2)), 2)
    IN  FAdd(r0, FMul(FSub(Unit, r0), Powf(FSub(Unit, cos2), 5)))

\* ComputedIntersection::schlick
Schlick(comps) ==
    LET cos == Dot(comps.eyev, comps.normalv)
        n == FDiv(comps.n1, comps.n2)
        sin2_t == FMul(Powf(n, 2), FSub(Unit, Powf(cos, 2)))
        tir == FGt(comps.n1, comps.n2) /\ FGt(sin2_t, Unit)
        cos2 == IF FGt(comps.n1, comps.n2) THEN FSqrt(FSub(Unit, sin2_t)) ELSE cos
        r0 == Powf(FDiv(FSub(comps.n1, comps.n2), FAdd(comps.n1, comps.n2)), 2)
    IN  IF tir THEN Unit
        ELSE FAdd(r0, FMul(FSub(Unit, r0), Powf(FSub(Unit, cos2), 5)))

(***************************************************************************)
(* Light, Material::lighting                                               *)
(***************************************************************************)
NoLight == [some |-> FALSE, position |-> 0, intensity |-> new_black]

Light(position, intensity) ==
    [some |-> TRUE, position |-> position, intensity |-> intensity]

\* a lighting that adds the diffuse term whether or not the point is in shadow
LightingIgnoresShadow(material, light, point, eyev, normalv, in_shadow) ==
    LET effective_color == ColorMul(material.color, light.intensity)
        lightv == Normalize(FSub(light.position, point))
        light_dot_normal == Dot(lightv, normalv)
    IN  ColorAdd(ColorScale(effective_color, material.ambient),
                 IF FLt(light_dot_normal, 0) THEN new_black
                 ELSE ColorScale(ColorScale(effective_color, material.diffuse),
                                 light_dot_normal))

\* a lighting that never asks on which side of the surface the light is
LightingWithoutSideTest(material, light, point, eyev, normalv, in_shadow) ==
    LET effective_color == ColorMul(material.color, light.intensity)
        lightv == Normalize(FSub(light.position, point))
        ambient == ColorScale(effective_color, material.ambient)
        light_dot_normal == Dot(lightv, normalv)
        reflect_dot_eye == Dot(FNeg(Reflect(lightv, normalv)), eyev)
        diffuse == ColorScale(ColorScale(effective_color, material.diffuse),
                              light_dot_normal)
        specular == ColorScale(ColorScale(light.intensity, material.specular),
                               Powf(reflect_dot_eye, material.shininess))
    IN  IF in_shadow THEN ambient
        ELSE ColorAdd(ColorAdd(ambient, diffuse), specular)

\* Material::lighting
Lighting(material, light, point, eyev, normalv, in_shadow) ==
    LET effective_color == ColorMul(material.color, light.intensity)
        lightv == Normalize(FSub(light.position, point))
        ambient == ColorScale(effective_color, material.ambient)
        light_dot_normal == Dot(lightv, normalv)
        reflectv == FNeg(Reflect(lightv, normalv))
        reflect_dot_eye == Dot(reflectv, eyev)
        diffuse == IF FLt(light_dot_normal, 0) THEN new_black
                   ELSE ColorScale(ColorScale(effective_color, material.diffuse),
                                   light_dot_normal)
        specular == IF FLt(light_dot_normal, 0) THEN new_black
                    ELSE IF FLe(reflect_dot_eye, 0) THEN new_black
                    ELSE ColorScale(ColorScale(light.intensity, material.specular),
                                    Powf(reflect_dot_eye, material.shininess))
    IN  IF in_shadow THEN ambient
        ELSE ColorAdd(ColorAdd(ambient, diffuse), specular)

(***************************************************************************)
(* World                                                                   *)
(***************************************************************************)
World(light, objects) == [light |-> light, objects |-> objects]

RECURSIVE FoldIntersect(_, _, _)
FoldIntersect(objects, ray, acc) ==
    IF objects = <<>> THEN acc
    ELSE FoldIntersect(Tail(objects), ray, acc \o ShapeIntersect(Head(objects), ray))

\* the vector World::intersect_world hands to Intersections::new
IntersectWorldVec(world, ray) == FoldIntersect(world.objects, ray, <<>>)

\* World::intersect_world (defined when the sort does not panic)
IntersectWorld(world, ray) == IntersectionsNew(IntersectWorldVec(world, ray))

\* the ray World::is_shadowed casts from point toward the light
ShadowRay(world, point) ==
    Ray(point, Normalize(FSub(world.light.position, point)))

\* World::is_shadowed aborts: light.as_ref().unwrap() on None, or the sort
ShadowPanics(world, point) ==
    \/ ~world.light.some
    \/ SortPanics(IntersectWorldVec(world, ShadowRay(world, point)))

\* a shadow test that takes any hit for a shadow, however far
ShadowedByAnyHit(world, point) ==
    Hit(IntersectWorld(world, ShadowRay(world, point))) # 0

\* World::is_shadowed (defined when it does not abort)
IsShadowed(world, point) ==
    LET distance == Magnitude(FSub(world.light.position, point))
        intersections == IntersectWorld(world, ShadowRay(world, point))
        h == Hit(intersections)
    IN  h # 0 /\ FLt(intersections[h].t, distance)

\* usize subtraction, wrapping as the release build does, on a usize of 31
\* bits
UsizeMax == 2147483647

WrappingSub(a, b) == IF a >= b THEN a - b ELSE UsizeMax - (b - a - 1)

\* a guard that looks at the material alone
ReflectedIgnoresDepth(comps, remaining) ==
    FEq(comps.object.material.reflective, 0)

\* the guard of reflected_color
ReflectedReturnsBlack(comps, remaining) ==
    remaining <= 0 \/ FEq(comps.object.material.reflective, 0)

ReflectRay(comps) == Ray(comps.over_point, comps.reflectv)

\* a guard that looks at the material alone
RefractedIgnoresDepth(comps, remaining) ==
    FEq(comps.object.material.transparency, 0)

\* the guard of refracted_color
RefractedReturnsBlack(comps, remaining) ==
    FEq(comps.object.material.transparency, 0) \/ remaining <= 0

Sin2T(comps) ==
    LET n_ratio == FDiv(comps.n1, comps.n2)
        cos_i == Dot(comps.eyev, comps.normalv)
    IN  FMul(Powf(n_ratio, 2), FSub(Unit, Powf(cos_i, 2)))

TotalInternalReflection(comps) == FGt(Sin2T(comps), Unit)

RefractRay(comps) ==
    LET n_ratio == FDiv(comps.n1, comps.n2)
        cos_i == Dot(comps.eyev, comps.normalv)
        cos_t == FSqrt(FSub(Unit, Sin2T(comps)))
        direction == FSub(FMul(comps.normalv, FSub(FMul(n_ratio, cos_i), cos_t)),
                          FMul(comps.eyev, n_ratio))
    IN  Ray(comps.under_point, direction)

\* the surface colour of shade_hit (defined when is_shadowed does not abort)
SurfaceColor(world, comps) ==
    Lighting(comps.object.material, world.light, comps.over_point,
             comps.eyev, comps.normalv, IsShadowed(world, comps.over_point))

\* a combination that sums the three terms whatever the material
AlwaysSum(comps, surface, reflected, refracted) ==
    ColorAdd(ColorAdd(surface, reflected), refracted)

\* the last statement of shade_hit
ShadeCombine(comps, surface, reflected, refracted) ==
    LET material == comps.object.material
    IN  IF FGt(material.reflective, 0) /\ FGt(material.transparency, 0)
        THEN LET reflectance == Schlick(comps)
             IN  ColorAdd(ColorAdd(surface, ColorScale(reflected, reflectance)),
                          ColorScale(refracted, FSub(Unit, reflectance)))
        ELSE ColorAdd(ColorAdd(surface, reflected), refracted)

(***************************************************************************)
(* color_at as a function: the value [ok, color] it returns, ok = FALSE    *)
(* when the call aborts                                                    *)
(***************************************************************************)
Ok(c) == [ok |-> TRUE, color |-> c]

Abort == [ok |-> FALSE, color |-> new_black]

RECURSIVE ColorAtOp(_, _, _)
RECURSIVE ShadeHitOp(_, _, _)
RECURSIVE ReflectedColorOp(_, _, _)
RECURSIVE RefractedColorOp(_, _, _)

ColorAtOp(world, ray, remaining) ==
    IF SortPanics(IntersectWorldVec(world, ray)) THEN Abort
    ELSE LET xs == IntersectWorld(world, ray)
             h == Hit(xs)
         IN  IF h = 0 THEN Ok(new_black)
             ELSE ShadeHitOp(world, PrepareComputations(xs[h], ray, xs), remaining)

ShadeHitOp(world, comps, remaining) ==
    IF ShadowPanics(world, comps.over_point) THEN Abort
    ELSE LET reflected == ReflectedColorOp(world, comps, remaining)
         IN  IF ~reflected.ok THEN Abort
             ELSE LET refracted == RefractedColorOp(world, comps, remaining)
                  IN  IF ~refracted.ok THEN Abort
                      ELSE Ok(ShadeCombine(comps, SurfaceColor(world, comps),
                                           reflected.color, refracted.color))

\* a reflected colour that is not scaled by the reflective coefficient
ReflectedUnscaled(world, comps, remaining) ==
    IF ReflectedReturnsBlack(comps, remaining) THEN Ok(new_black)
    ELSE ColorAtOp(world, ReflectRay(comps), WrappingSub(remaining, 1))

\* a refracted colour that goes on under total internal reflection
RefractedWithoutTirTest(world, comps, remaining) ==
    IF RefractedReturnsBlack(comps, remaining) THEN Ok(new_black)
    ELSE LET color == ColorAtOp(world, RefractRay(comps), WrappingSub(remaining, 1))
         IN  IF ~color.ok THEN Abort
             ELSE Ok(ColorScale(color.color, comps.object.material.transparency))

ReflectedColorOp(world, comps, remaining) ==
    IF ReflectedReturnsBlack(comps, remaining) THEN Ok(new_black)
    ELSE LET color == ColorAtOp(world, ReflectRay(comps), WrappingSub(remaining, 1))
         IN  IF ~color.ok THEN Abort
             ELSE Ok(ColorScale(color.color, comps.object.material.reflective))

RefractedColorOp(world, comps, remaining) ==
    IF RefractedReturnsBlack(comps, remaining) THEN Ok(new_black)
    ELSE IF TotalInternalReflection(comps) THEN Ok(new_black)
    ELSE LET color == ColorAtOp(world, RefractRay(comps), WrappingSub(remaining, 1))
         IN  IF ~color.ok THEN Abort
             ELSE Ok(ColorScale(color.color, comps.object.material.transparency))

(***************************************************************************)
(* Camera, Canvas                                                          *)
(***************************************************************************)
RenderDepth == 5

Camera(hsize, vsize, transform) ==
    [hsize |-> hsize, vsize |-> vsize, transform |-> transform]

Sgn(x) == IF x > 0 THEN 1 ELSE IF x < 0 THEN 0 - 1 ELSE 0

\* Camera::ray_for_pixel.  The origin is the inverse transform of the point
\* 0.  world_y = half_height - (py + 0.5) * pixel_size has the sign of
\* vsize - 2 py - 1; the direction is kept as its part along the axis: up,
\* down, or level with the planes.
RayForPixel(camera, px, py) ==
    Ray(FSub(0, camera.transform), Sgn(camera.vsize - 2 * py - 1) * Unit)

\* Canvas::new
CanvasNew(width, height) ==
    [width |-> width, height |-> height,
     pixels |-> [i \in 1..(width * height) |-> new_black]]

\* an index that strides by the height
IndexByHeight(canvas, x, y) == y * canvas.height + x

\* an index that ignores the width
IndexNoStride(canvas, x, y) == y + x

\* Canvas::get_pixel_index
get_pixel_index(canvas, x, y) == y * canvas.width + x

\* indexing self.pixels out of bounds panics
CanvasSetPanics(canvas, x, y) == get_pixel_index(canvas, x, y) >= Len(canvas.pixels)

\* Canvas::set (the Vec is indexed from 0, the sequence from 1)
CanvasSet(canvas, x, y, color) ==
    [canvas EXCEPT !.pixels[get_pixel_index(canvas, x, y) + 1] = color]

\* Canvas::get
CanvasGet(canvas, x, y) == canvas.pixels[get_pixel_index(canvas, x, y) + 1]

RECURSIVE RenderLoop(_, _, _, _)
\* the loops of Camera::render from pixel k on, in row-major order: the
\* canvas they leave, or the abort of a color_at or of a set
RenderLoop(canvas, camera, world, k) ==
    IF k >= camera.hsize * camera.vsize THEN [ok |-> TRUE, canvas |-> canvas]
    ELSE LET x == k % camera.hsize
             y == k \div camera.hsize
             color == ColorAtOp(world, RayForPixel(camera, x, y), RenderDepth)
         IN  IF ~color.ok \/ CanvasSetPanics(canvas, x, y)
             THEN [ok |-> FALSE, canvas |-> canvas]
             ELSE RenderLoop(CanvasSet(canvas, x, y, color.color), camera, world, k + 1)

\* Camera::render as a function of the camera and the world
RenderOp(camera, world) ==
    RenderLoop(CanvasNew(camera.hsize, camera.vsize), camera, world, 0)

(***************************************************************************)
(* State                                                                   *)
(***************************************************************************)
VARIABLES
    world,      \* the World handed to render or queried directly
    camera,     \* the Camera
    image,      \* the Canvas render fills
    writes,     \* per slot of image.pixels, how many times set wrote it
    px, py,     \* the loop counters x and y of render
    pc,         \* where the caller is: idle, loop, color_at, pixel,
                \* returned, done, aborted
    entry,      \* what the caller runs: none, render, color_at
    stack,      \* the nested color_at calls, outermost first
    ret,        \* the colour the outermost color_at returned
    last,       \* what the last color_at entered found: ray, xs, hit
    xmode,      \* Intersections under test: built by new or intersect_world
    xray,       \* the ray handed to intersect_world
    xin,        \* the vector handed to Intersections::new
    xdata,      \* the data of the Intersections built
    xpc,        \* off, start, constructed, hit, prepared, aborted
    xhit,       \* what hit returned: an index into xdata, 0 for None
    xtarget,    \* the entry of xdata prepare_computations was called on
    xn,         \* the n1 and n2 it computed
    workers,    \* per worker of a partitioned render: x, y, pc, color
    prims,      \* the primitive values constructed and not yet moved
    placed,     \* the vector of boxed primitives handed to World::new
    uuids,      \* how many ids Uuid::new_v4 has handed out
    call,       \* the operation called on its own: inverse, intersect, ...
    args,       \* its arguments
    cpc,        \* off, start, returned, aborted
    result      \* what it returned

renderVars == <<camera, image, writes, px, py, pc, entry, stack, ret, last>>

xsVars == <<xmode, xray, xin, xdata, xpc, xhit, xtarget, xn>>

shapeVars == <<prims, placed, uuids>>

callVars == <<call, args, cpc, result>>

\* what the sequential render and color_at leave alone
auxVars == <<xsVars, workers, shapeVars, callVars>>

vars == <<world, renderVars, xsVars, workers, shapeVars, callVars>>

NoComps ==
    [t |-> 0, object |-> Shape(0, 0, MaterialDefault), point |-> 0,
     over_point |-> 0, under_point |-> 0, normalv |-> 0, eyev |-> 0,
     reflectv |-> 0, inside |-> FALSE, n1 |-> NaN, n2 |-> NaN]

\* one call of color_at: its arguments, the position inside color_at /
\* shade_hit, and the locals of shade_hit
Frame(ray, remaining) ==
    [ray |-> ray, remaining |-> remaining, stage |-> "color_at",
     comps |-> NoComps, surface |-> new_black,
     reflected |-> new_black, refracted |-> new_black]

NoLast == [ray |-> Ray(0, 0), xs |-> <<>>, hit |-> 0, remaining |-> 0]

Top == stack[Len(stack)]

Caller == SubSeq(stack, 1, Len(stack) - 1)

SetTop(f) == [stack EXCEPT ![Len(stack)] = f]

(***************************************************************************)
(* Scenes                                                                  *)
(***************************************************************************)
MaxObjects == 2

MaxH == 2

MaxV == 3

Mirror == set_reflective(MaterialDefault, Unit)

Glass == set_refractive_index(set_transparency(MaterialDefault, Unit), 150)

GlassMirror ==
    set_refractive_index(
        set_transparency(set_reflective(MaterialDefault, 50), 50), 150)

Materials == {MaterialDefault, Mirror, Glass, GlassMirror}

PlanePositions == {0 - Unit, 0, Unit}

\* the primitives of a world: each built by Plane::default (a fresh id), or
\* all clones of the first (the id copied, as mirror2 of main)
ObjectLists ==
    UNION {
        { [i \in 1..n |-> Shape(IF cl THEN 1 ELSE i, pm[i][1], pm[i][2])] :
            pm \in [1..n -> PlanePositions \X Materials],
            cl \in (IF n = 2 THEN BOOLEAN ELSE {FALSE}) } :
        n \in 0..MaxObjects }

Lights == {NoLight, Light(0, new_white), Light(Unit - EPSILON, new_white)}

Worlds == { World(l, o) : l \in Lights, o \in ObjectLists }

Cameras == { Camera(MaxH, MaxV, 0) }

PrimaryRays == { Ray(0, Unit), Ray(0, 0 - Unit) }

\* no operation is called on its own
CallOff ==
    /\ call = "none"
    /\ args = <<>>
    /\ cpc = "off"
    /\ result = <<>>

\* no primitive is under construction
ShapesOff ==
    /\ prims = <<>>
    /\ placed = <<>>
    /\ uuids = 0

\* the Intersections under test are not used
XsOff ==
    /\ xmode = "off"
    /\ xray = Ray(0, 0)
    /\ xin = <<>>
    /\ xdata = <<>>
    /\ xpc = "off"
    /\ xhit = 0
    /\ xtarget = 0
    /\ xn = [n1 |-> NaN, n2 |-> NaN]

(***************************************************************************)
(* Camera::render and World::color_at as processes                         *)
(***************************************************************************)
Init ==
    /\ world \in Worlds
    /\ camera \in Cameras
    /\ image = CanvasNew(0, 0)
    /\ writes = <<>>
    /\ px = 0
    /\ py = 0
    /\ pc = "idle"
    /\ entry = "none"
    /\ stack = <<>>
    /\ ret = new_black
    /\ last = NoLast
    /\ XsOff
    /\ workers = <<>>
    /\ ShapesOff
    /\ CallOff

\* Camera::render, up to the loops
Render ==
    /\ pc = "idle"
    /\ entry' = "render"
    /\ image' = CanvasNew(camera.hsize, camera.vsize)
    /\ writes' = [i \in 1..(camera.hsize * camera.vsize) |-> 0]
    /\ px' = 0
    /\ py' = 0
    /\ pc' = "loop"
    /\ UNCHANGED <<world, camera, stack, ret, last, auxVars>>

\* a direct call world.color_at(&ray, remaining)
CallColorAt(ray, remaining) ==
    /\ pc = "idle"
    /\ entry' = "color_at"
    /\ stack' = <<Frame(ray, remaining)>>
    /\ pc' = "color_at"
    /\ UNCHANGED <<world, camera, image, writes, px, py, ret, last, auxVars>>

\* the loop head of render: the next pixel's ray_for_pixel and the call of
\* color_at, or the end of the loops
RenderPixel ==
    /\ pc = "loop"
    /\ IF py < camera.vsize
       THEN /\ stack' = <<Frame(RayForPixel(camera, px, py), RenderDepth)>>
            /\ pc' = "color_at"
       ELSE /\ pc' = "done"
            /\ UNCHANGED stack
    /\ UNCHANGED <<world, camera, image, writes, px, py, entry, ret, last, auxVars>>

\* color_at or shade_hit returns color: to the caller's reflected_color or
\* refracted_color, which scales it, or to render / the direct caller
Return(color) ==
    IF Len(stack) = 1
    THEN /\ stack' = <<>>
         /\ ret' = color
         /\ pc' = IF entry = "render" THEN "pixel" ELSE "returned"
    ELSE LET parent == stack[Len(stack) - 1]
             material == parent.comps.object.material
         IN  /\ stack' = [Caller EXCEPT ![Len(stack) - 1] =
                    IF parent.stage = "await_reflected"
                    THEN [parent EXCEPT
                            !.reflected = ColorScale(color, material.reflective),
                            !.stage = "refracted_color"]
                    ELSE [parent EXCEPT
                            !.refracted = ColorScale(color, material.transparency),
                            !.stage = "combine"]]
             /\ UNCHANGED <<ret, pc>>

\* color_at: intersect_world, hit, prepare_computations, and the head of
\* shade_hit (is_shadowed, lighting)
ColorAt ==
    /\ pc = "color_at"
    /\ Top.stage = "color_at"
    /\ LET v == IntersectWorldVec(world, Top.ray)
           xs == IntersectionsNew(v)
           h == Hit(xs)
           comps == PrepareComputations(xs[h], Top.ray, xs)
       IN  IF SortPanics(v)
           THEN /\ pc' = "aborted"
                /\ UNCHANGED <<stack, ret, last>>
           ELSE /\ last' = [ray |-> Top.ray, xs |-> xs, hit |-> h,
                            remaining |-> Top.remaining]
                /\ IF h = 0 THEN Return(new_black)
                   ELSE IF ShadowPanics(world, comps.over_point)
                   THEN /\ pc' = "aborted"
                        /\ UNCHANGED <<stack, ret>>
                   ELSE /\ stack' = SetTop([Top EXCEPT
                                !.comps = comps,
                                !.surface = SurfaceColor(world, comps),
                                !.stage = "reflected_color"])
                        /\ UNCHANGED <<ret, pc>>
    /\ UNCHANGED <<world, camera, image, writes, px, py, entry, auxVars>>

\* reflected_color, up to its call of color_at
ReflectedColor ==
    /\ pc = "color_at"
    /\ Top.stage = "reflected_color"
    /\ IF ReflectedReturnsBlack(Top.comps, Top.remaining)
       THEN stack' = SetTop([Top EXCEPT !.reflected = new_black,
                                        !.stage = "refracted_color"])
       ELSE stack' = Append(SetTop([Top EXCEPT !.stage = "await_reflected"]),
                            Frame(ReflectRay(Top.comps),
                                  WrappingSub(Top.remaining, 1)))
    /\ UNCHANGED <<world, camera, image, writes, px, py, pc, entry, ret, last, auxVars>>

\* refracted_color, up to its call of color_at
RefractedColor ==
    /\ pc = "color_at"
    /\ Top.stage = "refracted_color"
    /\ IF RefractedReturnsBlack(Top.comps, Top.remaining)
          \/ TotalInternalReflection(Top.comps)
       THEN stack' = SetTop([Top EXCEPT !.refracted = new_black,
                                        !.stage = "combine"])
       ELSE stack' = Append(SetTop([Top EXCEPT !.stage = "await_refracted"]),
                            Frame(RefractRay(Top.comps),
                                  WrappingSub(Top.remaining, 1)))
    /\ UNCHANGED <<world, camera, image, writes, px, py, pc, entry, ret, last, auxVars>>

\* the end of shade_hit: the three colours combined and returned
ShadeHit ==
    /\ pc = "color_at"
    /\ Top.stage = "combine"
    /\ Return(ShadeCombine(Top.comps, Top.surface, Top.reflected, Top.refracted))
    /\ UNCHANGED <<world, camera, image, writes, px, py, entry, last, auxVars>>

\* image.set(x, y, &color) and the step of the loops
SetPixel ==
    /\ pc = "pixel"
    /\ IF CanvasSetPanics(image, px, py)
       THEN /\ pc' = "aborted"
            /\ UNCHANGED <<image, writes, px, py>>
       ELSE /\ image' = CanvasSet(image, px, py, ret)
            /\ writes' = [writes EXCEPT ![get_pixel_index(image, px, py) + 1] = @ + 1]
            /\ IF px + 1 < camera.hsize
               THEN px' = px + 1 /\ py' = py
               ELSE px' = 0 /\ py' = py + 1
            /\ pc' = "loop"
    /\ UNCHANGED <<world, camera, entry, stack, ret, last, auxVars>>

Next ==
    \/ Render
    \/ \E ray \in PrimaryRays, remaining \in 0..RenderDepth : CallColorAt(ray, remaining)
    \/ RenderPixel
    \/ ColorAt
    \/ ReflectedColor
    \/ RefractedColor
    \/ ShadeHit
    \/ SetPixel

Spec == Init /\ [][Next]_vars

(***************************************************************************)
(* Intersections::new, World::intersect_world, hit and the refraction      *)
(* walk of prepare_computations on bounded inputs                          *)
(***************************************************************************)
MaxLen == 3

GlassA == Shape(1, 0, set_refractive_index(Glass, 150))

GlassB == Shape(2, 0, set_refractive_index(Glass, 200))

GlassC == Shape(3, 0, set_refractive_index(Glass, 250))

\* a clone of GlassA (the same id) given another material
GlassA2 == Shape(1, 0, set_refractive_index(Glass, 200))

XsObjects == {GlassA, GlassB, GlassA2}

XsTimes == {0 - Unit, 0, Unit, 2 * Unit, NaN}

XsEntries == { Intersection(t, o) : t \in XsTimes, o \in XsObjects }

\* the_hit_is_always_the_lowest_nonnegative_intersection
HitExample ==
    <<Intersection(5 * Unit, GlassA), Intersection(7 * Unit, GlassA),
      Intersection(0 - 3 * Unit, GlassA), Intersection(2 * Unit, GlassA)>>

\* finding_n1_and_n2_at_various_intersections
RefractionExample ==
    <<Intersection(200, GlassA), Intersection(275, GlassB),
      Intersection(325, GlassC), Intersection(475, GlassB),
      Intersection(525, GlassC), Intersection(600, GlassA)>>

XsVectors ==
    UNION { [1..n -> XsEntries] : n \in 0..MaxLen }
        \cup {HitExample, RefractionExample}

XsWorlds == { World(NoLight, o) : o \in ObjectLists }

XsRays == PrimaryRays \cup {Ray(0, 0), Ray(50, NaN)}

RenderOff ==
    /\ camera = Camera(0, 0, 0)
    /\ image = CanvasNew(0, 0)
    /\ writes = <<>>
    /\ px = 0
    /\ py = 0
    /\ pc = "off"
    /\ entry = "none"
    /\ stack = <<>>
    /\ ret = new_black
    /\ last = NoLast

InitXs ==
    /\ RenderOff
    /\ workers = <<>>
    /\ ShapesOff
    /\ CallOff
    /\ xpc = "start"
    /\ xdata = <<>>
    /\ xhit = 0
    /\ xtarget = 0
    /\ xn = [n1 |-> NaN, n2 |-> NaN]
    /\ \/ /\ xmode = "new"
          /\ xin \in XsVectors
          /\ world = World(NoLight, <<>>)
          /\ xray = Ray(0, 0)
       \/ /\ xmode = "intersect_world"
          /\ xin = <<>>
          /\ world \in XsWorlds
          /\ xray \in XsRays

\* Intersections::new(xin)
XsNew ==
    /\ xpc = "start"
    /\ xmode = "new"
    /\ IF SortPanics(xin)
       THEN xpc' = "aborted" /\ UNCHANGED xdata
       ELSE xpc' = "constructed" /\ xdata' = IntersectionsNew(xin)
    /\ UNCHANGED <<world, renderVars, workers, shapeVars, callVars, xmode, xray, xin, xhit, xtarget, xn>>

\* world.intersect_world(&xray)
XsIntersectWorld ==
    /\ xpc = "start"
    /\ xmode = "intersect_world"
    /\ xin' = IntersectWorldVec(world, xray)
    /\ IF SortPanics(xin')
       THEN xpc' = "aborted" /\ UNCHANGED xdata
       ELSE xpc' = "constructed" /\ xdata' = IntersectWorld(world, xray)
    /\ UNCHANGED <<world, renderVars, workers, shapeVars, callVars, xmode, xray, xhit, xtarget, xn>>

\* xs.hit()
XsHit ==
    /\ xpc = "constructed"
    /\ xhit' = Hit(xdata)
    /\ xpc' = "hit"
    /\ UNCHANGED <<world, renderVars, workers, shapeVars, callVars, xmode, xray, xin, xdata, xtarget, xn>>

\* xs[k - 1].prepare_computations(&r, &xs), its n1 and n2
XsPrepare(k) ==
    /\ xpc = "constructed"
    /\ k \in 1..Len(xdata)
    /\ xtarget' = k
    /\ xn' = RefractiveIndices(xdata[k], xdata)
    /\ xpc' = "prepared"
    /\ UNCHANGED <<world, renderVars, workers, shapeVars, callVars, xmode, xray, xin, xdata, xhit>>

NextXs ==
    \/ XsNew
    \/ XsIntersectWorld
    \/ XsHit
    \/ \E k \in 1..(MaxLen + 3) : XsPrepare(k)

SpecXs == InitXs /\ [][NextXs]_vars

(***************************************************************************)
(* The body of render's loops run by workers that own disjoint rows, each   *)
(* taking the pixels of its rows in any order                               *)
(***************************************************************************)
NWorkers == 2

\* the rows worker w owns
OwnRows(w, cam) == { y \in 0..(cam.vsize - 1) : y % NWorkers = w - 1 }

OwnPixels(w, cam) == (0..(cam.hsize - 1)) \X OwnRows(w, cam)

Worker(todo) == [todo |-> todo, pc |-> "loop", x |-> 0, y |-> 0, color |-> new_black]

\* the scenes of one primitive at most, and those of mirrors that face each
\* other across the camera
ParWorlds ==
    { w \in Worlds :
        \/ Len(w.objects) <= 1
        \/ /\ \A i \in DOMAIN w.objects : w.objects[i].material = Mirror
           /\ w.objects[1].transform = 0 - Unit
           /\ \A i \in 2..Len(w.objects) : w.objects[i].transform = Unit }

InitPar ==
    /\ world \in ParWorlds
    /\ camera \in Cameras
    /\ image = CanvasNew(camera.hsize, camera.vsize)
    /\ writes = [i \in 1..(camera.hsize * camera.vsize) |-> 0]
    /\ px = 0
    /\ py = 0
    /\ pc = "off"
    /\ entry = "none"
    /\ stack = <<>>
    /\ ret = new_black
    /\ last = NoLast
    /\ XsOff
    /\ ShapesOff
    /\ CallOff
    /\ workers = [w \in 1..NWorkers |-> Worker(OwnPixels(w, camera))]

\* worker w takes a pixel of its rows: ray_for_pixel and color_at
WorkerColorAt(w, p) ==
    /\ workers[w].pc = "loop"
    /\ p \in workers[w].todo
    /\ LET color == ColorAtOp(world, RayForPixel(camera, p[1], p[2]), RenderDepth)
       IN  workers' = [workers EXCEPT ![w] =
               IF color.ok
               THEN [todo |-> @.todo \ {p}, pc |-> "pixel",
                     x |-> p[1], y |-> p[2], color |-> color.color]
               ELSE [@ EXCEPT !.pc = "aborted"]]
    /\ UNCHANGED <<world, renderVars, xsVars, shapeVars, callVars>>

\* worker w stores the colour: image.set(x, y, &color)
WorkerSet(w) ==
    /\ workers[w].pc = "pixel"
    /\ IF CanvasSetPanics(image, workers[w].x, workers[w].y)
       THEN /\ workers' = [workers EXCEPT ![w].pc = "aborted"]
            /\ UNCHANGED <<image, writes>>
       ELSE /\ image' = CanvasSet(image, workers[w].x, workers[w].y, workers[w].color)
            /\ writes' = [writes EXCEPT
                    ![get_pixel_index(image, workers[w].x, workers[w].y) + 1] = @ + 1]
            /\ workers' = [workers EXCEPT ![w].pc = "loop"]
    /\ UNCHANGED <<world, camera, px, py, pc, entry, stack, ret, last, xsVars, shapeVars, callVars>>

\* worker w has no pixel left
WorkerDone(w) ==
    /\ workers[w].pc = "loop"
    /\ workers[w].todo = {}
    /\ workers' = [workers EXCEPT ![w].pc = "done"]
    /\ UNCHANGED <<world, renderVars, xsVars, shapeVars, callVars>>

NextPar ==
    \/ \E w \in 1..NWorkers, p \in (0..(MaxH - 1)) \X (0..(MaxV - 1)) : WorkerColorAt(w, p)
    \/ \E w \in 1..NWorkers : WorkerSet(w)
    \/ \E w \in 1..NWorkers : WorkerDone(w)

SpecPar == InitPar /\ [][NextPar]_vars

(***************************************************************************)
(* The identity of primitives: construction, clone, the setters, and the    *)
(* vector of boxed primitives a World is built from                         *)
(***************************************************************************)
MaxPrims == 3

ShapeTransforms == {0, Unit}

\* how many intersections are kept for comparison
MaxKept == 2

ShapeMaterials == {MaterialDefault, Glass}

RemoveAt(s, i) == SubSeq(s, 1, i - 1) \o SubSeq(s, i + 1, Len(s))

InitShapes ==
    /\ RenderOff
    /\ XsOff
    /\ workers = <<>>
    /\ ShapesOff
    /\ CallOff
    /\ world = World(NoLight, <<>>)

\* Plane::new / Plane::default: id: Uuid::new_v4()
ShapeNew(transform, material) ==
    /\ Len(prims) + Len(placed) < MaxPrims
    /\ uuids' = uuids + 1
    /\ prims' = Append(prims, Shape(uuids + 1, transform, material))
    /\ UNCHANGED <<world, renderVars, xsVars, workers, callVars, placed>>

\* #[derive(Clone)]: every field copied, the id among them
ShapeClone(i) ==
    /\ i \in 1..Len(prims)
    /\ Len(prims) + Len(placed) < MaxPrims
    /\ prims' = Append(prims, prims[i])
    /\ UNCHANGED <<world, renderVars, xsVars, workers, callVars, placed, uuids>>

\* a set_transform that returns a primitive built anew, with an id of its own
SetTransformAnew(i, transform) ==
    /\ i \in 1..Len(prims)
    /\ Len(prims) + Len(placed) < MaxPrims
    /\ uuids' = uuids + 1
    /\ LET self == [prims[i] EXCEPT !.transform = transform]
       IN  prims' = Append([prims EXCEPT ![i] = self],
                           Shape(uuids + 1, transform, self.material))
    /\ UNCHANGED <<world, renderVars, xsVars, workers, callVars, placed>>

\* set_transform(&mut self, transform) -> Self: self.transform = transform;
\* self.clone()
ShapeSetTransform(i, transform) ==
    /\ i \in 1..Len(prims)
    /\ Len(prims) + Len(placed) < MaxPrims
    /\ LET self == [prims[i] EXCEPT !.transform = transform]
       IN  prims' = Append([prims EXCEPT ![i] = self], self)
    /\ UNCHANGED <<world, renderVars, xsVars, workers, callVars, placed, uuids>>

\* set_material(&mut self, material) -> Self: self.material = material;
\* self.clone()
ShapeSetMaterial(i, material) ==
    /\ i \in 1..Len(prims)
    /\ Len(prims) + Len(placed) < MaxPrims
    /\ LET self == [prims[i] EXCEPT !.material = material]
       IN  prims' = Append([prims EXCEPT ![i] = self], self)
    /\ UNCHANGED <<world, renderVars, xsVars, workers, callVars, placed, uuids>>

\* Box::new(prims[i]) moved into the vector of objects
ShapePlace(i) ==
    /\ i \in 1..Len(prims)
    /\ world.objects = <<>>
    /\ placed' = Append(placed, prims[i])
    /\ prims' = RemoveAt(prims, i)
    /\ UNCHANGED <<world, renderVars, xsVars, workers, callVars, uuids>>

\* prims[i].intersect(&ray): local_intersect and intersection(t), which
\* puts a clone of the primitive into each Intersection; result keeps the
\* intersections made so far, each with the id of the primitive asked
ShapeIntersects(i, ray) ==
    /\ i \in 1..Len(prims)
    /\ Len(result) < MaxKept
    /\ ShapeIntersect(prims[i], ray) # <<>>
    /\ result' = Append(result, [of |-> prims[i].id,
                                 made |-> ShapeIntersect(prims[i], ray)[1]])
    /\ UNCHANGED <<world, renderVars, xsVars, workers, shapeVars, call, args, cpc>>

\* World::new(None, placed)
ShapeWorldNew ==
    /\ world.objects = <<>>
    /\ placed # <<>>
    /\ world' = World(NoLight, placed)
    /\ UNCHANGED <<renderVars, xsVars, workers, callVars, shapeVars>>

NextShapes ==
    \/ \E i \in 1..MaxPrims, ray \in PrimaryRays : ShapeIntersects(i, ray)
    \/ \E tr \in ShapeTransforms, m \in ShapeMaterials : ShapeNew(tr, m)
    \/ \E i \in 1..MaxPrims : ShapeClone(i)
    \/ \E i \in 1..MaxPrims, tr \in ShapeTransforms : ShapeSetTransform(i, tr)
    \/ \E i \in 1..MaxPrims, m \in ShapeMaterials : ShapeSetMaterial(i, m)
    \/ \E i \in 1..MaxPrims : ShapePlace(i)
    \/ ShapeWorldNew

SpecShapes == InitShapes /\ [][NextShapes]_vars

(***************************************************************************)
(* Tuple and Matrix in three dimensions                                     *)
(***************************************************************************)
Tuple(x, y, z, w) == [x |-> x, y |-> y, z |-> z, w |-> w]

point(x, y, z) == Tuple(x, y, z, Unit)

vector(x, y, z) == Tuple(x, y, z, 0)

TupleAdd(a, b) ==
    Tuple(FAdd(a.x, b.x), FAdd(a.y, b.y), FAdd(a.z, b.z), FAdd(a.w, b.w))

TupleSub(a, b) ==
    Tuple(FSub(a.x, b.x), FSub(a.y, b.y), FSub(a.z, b.z), FSub(a.w, b.w))

TupleScale(a, k) ==
    Tuple(FMul(a.x, k), FMul(a.y, k), FMul(a.z, k), FMul(a.w, k))

TupleDot(a, b) ==
    FAdd(FAdd(FAdd(FMul(a.x, b.x), FMul(a.y, b.y)), FMul(a.z, b.z)), FMul(a.w, b.w))

TupleMagnitude(a) ==
    FSqrt(FAdd(FAdd(FAdd(Powf(a.x, 2), Powf(a.y, 2)), Powf(a.z, 2)), Powf(a.w, 2)))

\* a zero vector normalises to NaN components (0 / 0)
TupleNormalize(a) ==
    LET magnitude == TupleMagnitude(a)
    IN  Tuple(FDiv(a.x, magnitude), FDiv(a.y, magnitude),
              FDiv(a.z, magnitude), FDiv(a.w, magnitude))

\* Matrix::identity; a matrix is the sequence of its rows
identity ==
    [row \in 1..4 |-> [col \in 1..4 |-> IF row = col THEN Unit ELSE 0]]

\* Matrix::translation: the last column overwritten
translation(m, x, y, z) ==
    [m EXCEPT ![1][4] = x, ![2][4] = y, ![3][4] = z]

\* Matrix::scaling: the diagonal overwritten
scaling(m, x, y, z) ==
    [m EXCEPT ![1][1] = x, ![2][2] = y, ![3][3] = z]

\* Matrix::transpose
transpose(m) ==
    [row \in 1..Len(m) |-> [col \in 1..Len(m) |-> m[col][row]]]

\* Matrix::get_submatrix (rows and columns counted from 1)
submatrix(m, remove_row, remove_col) ==
    [row \in 1..(Len(m) - 1) |->
        [col \in 1..(Len(m) - 1) |->
            m[IF row < remove_row THEN row ELSE row + 1]
             [IF col < remove_col THEN col ELSE col + 1]]]

RECURSIVE determinant(_)
RECURSIVE cofactor(_, _, _)
\* Matrix<2>::determinant, and the expansion along the first row of
\* Matrix<3> and Matrix<4>
determinant(m) ==
    IF Len(m) = 2
    THEN FSub(FMul(m[1][1], m[2][2]), FMul(m[1][2], m[2][1]))
    ELSE LET term(col) == FMul(m[1][col], cofactor(m, 1, col))
         IN  IF Len(m) = 3
             THEN FAdd(FAdd(FAdd(0, term(1)), term(2)), term(3))
             ELSE FAdd(FAdd(FAdd(FAdd(0, term(1)), term(2)), term(3)), term(4))

\* Matrix::minor with the sign of Matrix::cofactor
cofactor(m, row, col) ==
    LET minor == determinant(submatrix(m, row, col))
    IN  IF (row + col) % 2 = 0 THEN minor ELSE FNeg(minor)

\* a matrix whose determinant is always taken for non-zero
AlwaysInvertible(m) == TRUE

\* Matrix::is_invertible: determinant != 0. (true of a NaN determinant)
is_invertible(m) == ~FEq(determinant(m), 0)

\* Matrix::inverse panics
InversePanics(m) == ~is_invertible(m)

\* Matrix::inverse: result[col][row] = cofactor(row, col) / determinant
inverse(m) ==
    [row \in 1..4 |-> [col \in 1..4 |-> FDiv(cofactor(m, col, row), determinant(m))]]

\* impl Mul<Tuple> for Matrix<4>
MatrixMulTuple(m, t) ==
    LET line(i) == FAdd(FAdd(FAdd(FMul(m[i][1], t.x), FMul(m[i][2], t.y)),
                             FMul(m[i][3], t.z)), FMul(m[i][4], t.w))
    IN  Tuple(line(1), line(2), line(3), line(4))

\* impl Mul for Matrix
MatrixMul(a, b) ==
    [row \in 1..4 |-> [col \in 1..4 |->
        FAdd(FAdd(FAdd(FAdd(0, FMul(a[row][1], b[1][col])), FMul(a[row][2], b[2][col])),
                  FMul(a[row][3], b[3][col])), FMul(a[row][4], b[4][col]))]]

\* Ray::transform
RayTransform(ray, matrix) ==
    Ray(MatrixMulTuple(matrix, ray.origin), MatrixMulTuple(matrix, ray.direction))

\* Ray::position
RayPosition(ray, t) == TupleAdd(ray.origin, TupleScale(ray.direction, t))

(***************************************************************************)
(* Sphere and Plane under a matrix transform                                *)
(***************************************************************************)
Sphere(transform) == [kind |-> "sphere", transform |-> transform]

Plane(transform) == [kind |-> "plane", transform |-> transform]

\* Sphere::local_intersect: None is the empty vector
SphereLocalIntersect(shape, local_ray) ==
    LET sphere_to_ray == TupleSub(local_ray.origin, point(0, 0, 0))
        a == TupleDot(local_ray.direction, local_ray.direction)
        b == FMul(2 * Unit, TupleDot(local_ray.direction, sphere_to_ray))
        c == FSub(TupleDot(sphere_to_ray, sphere_to_ray), Unit)
        discriminant == FSub(Powf(b, 2), FMul(FMul(4 * Unit, a), c))
        t1 == FDiv(FSub(FNeg(b), FSqrt(discriminant)), FMul(2 * Unit, a))
        t2 == FDiv(FAdd(FNeg(b), FSqrt(discriminant)), FMul(2 * Unit, a))
    IN  IF FLt(discriminant, 0) THEN <<>>
        ELSE <<Intersection(t1, shape), Intersection(t2, shape)>>

\* Plane::local_intersect on a ray of three dimensions
PlaneLocalIntersect3(shape, local_ray) ==
    IF FLt(FAbs(local_ray.direction.y), EPSILON) THEN <<>>
    ELSE <<Intersection(FDiv(FNeg(local_ray.origin.y), local_ray.direction.y), shape)>>

local_intersect(shape, local_ray) ==
    IF shape.kind = "sphere" THEN SphereLocalIntersect(shape, local_ray)
    ELSE PlaneLocalIntersect3(shape, local_ray)

\* Shape::intersect (defined when the inverse does not panic)
intersect(shape, ray) ==
    local_intersect(shape, RayTransform(ray, inverse(shape.transform)))

\* Sphere::local_normal_at, Plane::local_normal_at
local_normal_at(shape, local_point) ==
    IF shape.kind = "sphere" THEN TupleSub(local_point, point(0, 0, 0))
    ELSE vector(0, Unit, 0)

\* Shape::normal_at (defined when the inverse does not panic)
normal_at(shape, world_point) ==
    LET local_point == MatrixMulTuple(inverse(shape.transform), world_point)
        local_normal == local_normal_at(shape, local_point)
        world_normal == MatrixMulTuple(transpose(inverse(shape.transform)), local_normal)
    IN  TupleNormalize([world_normal EXCEPT !.w = 0])

\* TestPattern::new
TestPattern(transform) == [kind |-> "test", transform |-> transform]

\* TestPattern::pattern_at
pattern_at(pattern, p) == Color(p.x, p.y, p.z)

\* an evaluation that takes the world point into pattern space first and
\* into object space second
PatternBeforeObject(pattern, object, world_point) ==
    LET pattern_point == MatrixMulTuple(inverse(pattern.transform), world_point)
        object_point == MatrixMulTuple(inverse(object.transform), pattern_point)
    IN  pattern_at(pattern, object_point)

\* Pattern::pattern_at_shape (defined when neither inverse panics)
pattern_at_shape(pattern, object, world_point) ==
    LET object_point == MatrixMulTuple(inverse(object.transform), world_point)
        pattern_point == MatrixMulTuple(inverse(pattern.transform), object_point)
    IN  pattern_at(pattern, pattern_point)

RECURSIVE FoldIntersect3(_, _, _)
\* the fold of intersect_world over objects of three dimensions
FoldIntersect3(objects, ray, acc) ==
    IF objects = <<>> THEN acc
    ELSE FoldIntersect3(Tail(objects), ray, acc \o intersect(Head(objects), ray))

(***************************************************************************)
(* inverse, intersect, normal_at and intersect_world called on their own    *)
(***************************************************************************)
MaxGeomObjects == 2

Transforms ==
    { identity,
      translation(identity, 0, Unit, 0),
      translation(identity, 50, Unit, 150),
      scaling(identity, 2 * Unit, 2 * Unit, 2 * Unit),
      scaling(identity, Unit, 0, Unit),
      scaling(identity, 0, 0, 0),
      translation(scaling(identity, 2 * Unit, 50, Unit), 0, 0 - Unit, 0),
      [identity EXCEPT ![2] = identity[1]] }

GeomShapes == { Sphere(m) : m \in Transforms } \cup { Plane(m) : m \in Transforms }

GeomRays ==
    { Ray(point(0, y, 0 - 5 * Unit), vector(0, 0, Unit)) : y \in {0, Unit, 2 * Unit} }
        \cup { Ray(point(0, 2 * Unit, 0), d) :
                 d \in { vector(0, 0 - Unit, 0), vector(0, 0, 0), vector(Unit, 0, 0) } }

GeomPoints == { point(0, Unit, 0), point(Unit, 0, 0), point(0, 0, 0) }

GeomObjectLists == UNION { [1..n -> GeomShapes] : n \in 0..MaxGeomObjects }

\* the points of the pattern tests
PatternPoints ==
    { point(2 * Unit, 3 * Unit, 4 * Unit), point(250, 3 * Unit, 350),
      point(0 - Unit, 50, 0) }

OthersOff ==
    /\ RenderOff
    /\ XsOff
    /\ ShapesOff
    /\ workers = <<>>
    /\ world = World(NoLight, <<>>)

InitGeom ==
    /\ OthersOff
    /\ cpc = "start"
    /\ result = <<>>
    /\ \/ /\ call = "inverse"
          /\ args \in { [m |-> m] : m \in Transforms }
       \/ /\ call = "intersect"
          /\ args \in { [shape |-> sh, ray |-> r] : sh \in GeomShapes, r \in GeomRays }
       \/ /\ call = "normal_at"
          /\ args \in { [shape |-> sh, point |-> p] : sh \in GeomShapes, p \in GeomPoints }
       \/ /\ call = "intersect_world"
          /\ args \in { [objects |-> o, ray |-> r] : o \in GeomObjectLists, r \in GeomRays }
       \/ /\ call = "pattern_at_shape"
          /\ args \in { [pattern |-> TestPattern(m), shape |-> sh, point |-> p] :
                          m \in Transforms, sh \in GeomShapes, p \in PatternPoints }

\* the call returns value
Returns(value) ==
    /\ cpc' = "returned"
    /\ result' = value
    /\ UNCHANGED <<world, renderVars, xsVars, workers, shapeVars, call, args>>

\* the call panics
Panics ==
    /\ cpc' = "aborted"
    /\ UNCHANGED <<world, renderVars, xsVars, workers, shapeVars, call, args, result>>

\* m.inverse()
GeomInverse ==
    /\ cpc = "start"
    /\ call = "inverse"
    /\ IF InversePanics(args.m) THEN Panics ELSE Returns(inverse(args.m))

\* shape.intersect(&ray)
GeomIntersect ==
    /\ cpc = "start"
    /\ call = "intersect"
    /\ IF InversePanics(args.shape.transform) THEN Panics
       ELSE Returns(intersect(args.shape, args.ray))

\* shape.normal_at(point)
GeomNormalAt ==
    /\ cpc = "start"
    /\ call = "normal_at"
    /\ IF InversePanics(args.shape.transform) THEN Panics
       ELSE Returns(normal_at(args.shape, args.point))

\* World::new(None, objects).intersect_world(&ray)
GeomIntersectWorld ==
    /\ cpc = "start"
    /\ call = "intersect_world"
    /\ IF \E i \in DOMAIN args.objects : InversePanics(args.objects[i].transform)
       THEN Panics
       ELSE LET xs == FoldIntersect3(args.objects, args.ray, <<>>)
            IN  IF SortPanics(xs) THEN Panics ELSE Returns(IntersectionsNew(xs))

\* pattern.pattern_at_shape(Rc::new(shape), point)
GeomPatternAtShape ==
    /\ cpc = "start"
    /\ call = "pattern_at_shape"
    /\ IF InversePanics(args.shape.transform) \/ InversePanics(args.pattern.transform)
       THEN Panics
       ELSE Returns(pattern_at_shape(args.pattern, args.shape, args.point))

NextGeom ==
    \/ GeomInverse
    \/ GeomIntersect
    \/ GeomNormalAt
    \/ GeomIntersectWorld
    \/ GeomPatternAtShape

SpecGeom == InitGeom /\ [][NextGeom]_vars

(***************************************************************************)
(* Conversion of a Color to RGB                                             *)
(***************************************************************************)
\* Color::clamp: NaN matches neither guard and passes
clamp(x) == IF FGt(x, Unit) THEN Unit ELSE IF FLt(x, 0) THEN 0 ELSE x

\* f64::round of a value in ticks: the nearest whole number, halves away
\* from zero
Round(x) ==
    IF IsNaN(x) THEN NaN
    ELSE IF x >= 0 THEN (2 * x + Unit) \div (2 * Unit)
    ELSE 0 - ((2 * (0 - x) + Unit) \div (2 * Unit))

\* `as u8`: saturating, NaN to 0
AsU8(n) == IF IsNaN(n) \/ n < 0 THEN 0 ELSE IF n > 255 THEN 255 ELSE n

\* a conversion that forgets the factor 255
ColorValueUnscaled(value) == AsU8(Round(clamp(value)))

\* color_value_to_rgb
color_value_to_rgb(value) == AsU8(Round(FMul(clamp(value), 255 * Unit)))

\* impl From<&Color> for RGB
RGBFrom(color) ==
    <<color_value_to_rgb(color[1]), color_value_to_rgb(color[2]),
      color_value_to_rgb(color[3])>>

(***************************************************************************)
(* lighting, is_shadowed, schlick, shade_hit, color_at and the conversion   *)
(* to RGB called on their own                                               *)
(***************************************************************************)
MaxShade == 2

LightingMaterials ==
    { MaterialDefault,
      set_ambient(MaterialDefault, 50),
      set_color(MaterialDefault, Color(50, Unit, 150)),
      [MaterialDefault EXCEPT !.diffuse = 0, !.specular = 0],
      [MaterialDefault EXCEPT !.diffuse = 70, !.specular = 20, !.shininess = 10] }

LightingLights ==
    { Light(p, i) : p \in {0 - 2 * Unit, 0, 2 * Unit},
                    i \in {new_white, Color(50, 50, Unit)} }

Signs == {0 - Unit, Unit}

LightingArgs ==
    { [material |-> m, light |-> l, point |-> p, eyev |-> e, normalv |-> n,
       in_shadow |-> s] :
        m \in LightingMaterials, l \in LightingLights, p \in {0, Unit},
        e \in Signs \cup {0}, n \in Signs, s \in BOOLEAN }

ShadeWorlds == { w \in Worlds : Len(w.objects) <= MaxShade }

ShadowPoints == {0 - 2 * Unit, 0 - EPSILON, 0, 50, 2 * Unit}

\* the eye vector by its component along the normal, and the two indices
SchlickArgs ==
    { [eyev |-> e, normalv |-> Unit, n1 |-> a, n2 |-> b] :
        e \in {0, 30, 70, Unit}, a \in {Unit, 150, 200}, b \in {Unit, 150, 200} }

Remainings == {0, 1, RenderDepth}

\* the primary rays, and a ray that starts in front of every plane
ShadeRays == PrimaryRays \cup { Ray(0 - 2 * Unit, Unit) }

\* the rays that hit something in a world
HitPairs ==
    { pr \in ShadeWorlds \X ShadeRays : Hit(IntersectWorld(pr[1], pr[2])) # 0 }

\* the computations of the hit of a primary ray
ShadeHitArgs ==
    { [world |-> pr[1],
       comps |-> LET xs == IntersectWorld(pr[1], pr[2])
                 IN  PrepareComputations(xs[Hit(xs)], pr[2], xs),
       remaining |-> k] : pr \in HitPairs, k \in Remainings }

ColorValues == {NaN, 0 - 50, 0, 10, 50, Unit, 150, 1140}

\* the computations of a hit seen at an angle: the eye vector by its
\* component along the normal, between two media
ObliqueArgs ==
    { [a EXCEPT !.comps.eyev = Sgn(a.comps.eyev) * e,
                !.comps.n1 = n[1], !.comps.n2 = n[2]] :
        a \in ShadeHitArgs, e \in {30, 70}, n \in {<<150, Unit>>, <<Unit, 150>>} }

\* the colours color_at returns for the primary rays
ColorAtResults ==
    { ColorAtOp(pr[1], pr[2], RenderDepth).color :
        pr \in { qr \in ShadeWorlds \X PrimaryRays :
                   ColorAtOp(qr[1], qr[2], RenderDepth).ok } }

InitShade ==
    /\ OthersOff
    /\ cpc = "start"
    /\ result = <<>>
    /\ \/ /\ call = "lighting"
          /\ args \in LightingArgs
       \/ /\ call = "is_shadowed"
          /\ args \in { [world |-> w, point |-> p] : w \in ShadeWorlds, p \in ShadowPoints }
       \/ /\ call = "schlick"
          /\ args \in SchlickArgs
       \/ /\ call = "shade_hit"
          /\ args \in ShadeHitArgs
       \/ /\ call = "color_at"
          /\ args \in { [world |-> w, ray |-> r, remaining |-> k] :
                          w \in ShadeWorlds, r \in ShadeRays, k \in Remainings }
       \/ /\ call = "reflected_color"
          /\ args \in ShadeHitArgs
       \/ /\ call = "refracted_color"
          /\ args \in ShadeHitArgs \cup ObliqueArgs
       \/ /\ call = "rgb"
          /\ args \in { [color |-> Color(r, g, b)] :
                          r \in ColorValues, g \in ColorValues, b \in {0, Unit} }
                      \cup { [color |-> c] : c \in ColorAtResults }

\* material.lighting(object, light, point, eyev, normalv, in_shadow)
ShadeLighting ==
    /\ cpc = "start"
    /\ call = "lighting"
    /\ Returns(Lighting(args.material, args.light, args.point, args.eyev,
                        args.normalv, args.in_shadow))

\* world.is_shadowed(point)
ShadeIsShadowed ==
    /\ cpc = "start"
    /\ call = "is_shadowed"
    /\ IF ShadowPanics(args.world, args.point) THEN Panics
       ELSE Returns(IsShadowed(args.world, args.point))

\* comps.schlick()
ShadeSchlick ==
    /\ cpc = "start"
    /\ call = "schlick"
    /\ Returns(Schlick(args))

\* world.shade_hit(comps, remaining)
ShadeShadeHit ==
    /\ cpc = "start"
    /\ call = "shade_hit"
    /\ LET color == ShadeHitOp(args.world, args.comps, args.remaining)
       IN  IF color.ok THEN Returns(color.color) ELSE Panics

\* world.color_at(&ray, remaining)
ShadeColorAt ==
    /\ cpc = "start"
    /\ call = "color_at"
    /\ LET color == ColorAtOp(args.world, args.ray, args.remaining)
       IN  IF color.ok THEN Returns(color.color) ELSE Panics

\* world.reflected_color(&comps, remaining)
ShadeReflectedColor ==
    /\ cpc = "start"
    /\ call = "reflected_color"
    /\ LET color == ReflectedColorOp(args.world, args.comps, args.remaining)
       IN  IF color.ok THEN Returns(color.color) ELSE Panics

\* world.refracted_color(&comps, remaining)
ShadeRefractedColor ==
    /\ cpc = "start"
    /\ call = "refracted_color"
    /\ LET color == RefractedColorOp(args.world, args.comps, args.remaining)
       IN  IF color.ok THEN Returns(color.color) ELSE Panics

\* RGB::from(&color)
ShadeRgb ==
    /\ cpc = "start"
    /\ call = "rgb"
    /\ Returns(RGBFrom(args.color))

NextShade ==
    \/ ShadeLighting
    \/ ShadeIsShadowed
    \/ ShadeSchlick
    \/ ShadeShadeHit
    \/ ShadeColorAt
    \/ ShadeReflectedColor
    \/ ShadeRefractedColor
    \/ ShadeRgb

SpecShade == InitShade /\ [][NextShade]_vars

(***************************************************************************)
(* The loader: serde_yaml values and parse_config                           *)
(***************************************************************************)
\* serde_yaml::Value
YInt(n) == [tag |-> "int", n |-> n]

YFloat(x) == [tag |-> "float", x |-> x]

YStr(s) == [tag |-> "string", s |-> s]

YSeq(items) == [tag |-> "sequence", items |-> items]

\* a mapping: the function from its keys to their values
YMap(fields) == [tag |-> "mapping", fields |-> fields]

\* Option, with the panic an unwrap or an index raises on the way
None == [some |-> FALSE, panic |-> FALSE]

Some(v) == [some |-> TRUE, panic |-> FALSE, value |-> v]

Panic == [some |-> FALSE, panic |-> TRUE]

get_value_by_key(config, key) ==
    IF key \in DOMAIN config THEN Some(config[key]) ELSE None

\* Value::as_i64: a whole number only
as_i64(v) == IF v.tag = "int" THEN Some(v.n) ELSE None

\* Value::as_f64: any number, in ticks
as_f64(v) ==
    IF v.tag = "int" THEN Some(v.n * Unit)
    ELSE IF v.tag = "float" THEN Some(v.x)
    ELSE None

as_str(v) == IF v.tag = "string" THEN Some(v.s) ELSE None

as_sequence(v) == IF v.tag = "sequence" THEN Some(v.items) ELSE None

as_mapping(v) == IF v.tag = "mapping" THEN Some(v.fields) ELSE None

\* as_vec_f64: item.as_f64().unwrap() panics on an item that is no number
as_vec_f64(sequence) ==
    IF \E i \in DOMAIN sequence : ~as_f64(sequence[i]).some THEN Panic
    ELSE Some([i \in DOMAIN sequence |-> as_f64(sequence[i]).value])

get_vec_f64_from_sequence(config, key) ==
    LET v == get_value_by_key(config, key)
    IN  IF ~v.some THEN None
        ELSE IF ~as_sequence(v.value).some THEN None
        ELSE as_vec_f64(as_sequence(v.value).value)

\* the first of the options that is not Some, or Some(<<values>>): a chain
\* of `?` evaluated from left to right
RECURSIVE Chain(_)
Chain(opts) ==
    IF opts = <<>> THEN Some(<<>>)
    ELSE IF ~Head(opts).some THEN Head(opts)
    ELSE LET rest == Chain(Tail(opts))
         IN  IF ~rest.some THEN rest ELSE Some(<<Head(opts).value>> \o rest.value)

\* v[0], v[1], v[2]: the index panics on a vector of fewer than three items
Three(v) == IF Len(v) < 3 THEN Panic ELSE Some(<<v[1], v[2], v[3]>>)

\* Option::and_then
AndThen(opt, F(_)) == IF opt.some THEN F(opt.value) ELSE opt

\* the arguments handed to Matrix::identity().view_transform
ViewTransform(from, to, up) == [from |-> from, to |-> to, up |-> up]

\* Camera::new(width as usize, height as usize, fov).set_transform(..)
LoaderCamera(hsize, vsize, field_of_view, transform) ==
    [hsize |-> hsize, vsize |-> vsize, field_of_view |-> field_of_view,
     transform |-> transform]

get_camera_from_config(config) ==
    LET fields == Chain(<<AndThen(get_value_by_key(config, "width"), as_i64),
                          AndThen(get_value_by_key(config, "height"), as_i64),
                          AndThen(get_value_by_key(config, "field-of-view"), as_f64),
                          get_vec_f64_from_sequence(config, "from"),
                          get_vec_f64_from_sequence(config, "to"),
                          get_vec_f64_from_sequence(config, "up")>>)
    IN  IF ~fields.some THEN fields
        ELSE LET f == fields.value
                 vs == Chain(<<Three(f[4]), Three(f[5]), Three(f[6])>>)
             IN  IF ~vs.some THEN vs
                 ELSE Some(LoaderCamera(f[1], f[2], f[3],
                               ViewTransform(point(vs.value[1][1], vs.value[1][2], vs.value[1][3]),
                                             point(vs.value[2][1], vs.value[2][2], vs.value[2][3]),
                                             vector(vs.value[3][1], vs.value[3][2], vs.value[3][3]))))

get_light_from_config(config) ==
    LET fields == Chain(<<get_vec_f64_from_sequence(config, "at"),
                          get_vec_f64_from_sequence(config, "intensity")>>)
    IN  IF ~fields.some THEN fields
        ELSE LET vs == Chain(<<Three(fields.value[1]), Three(fields.value[2])>>)
             IN  IF ~vs.some THEN vs
                 ELSE Some(Light(point(vs.value[1][1], vs.value[1][2], vs.value[1][3]),
                                 Color(vs.value[2][1], vs.value[2][2], vs.value[2][3])))

\* the transformations whose matrices are built here; the rotations and the
\* shearing are named so that no other name is mistaken for them
TransformNames ==
    {"translate", "scale", "rotate-x", "rotate-y", "rotate-z", "shearing"}

\* one step of the loop of get_transform
ApplyTransform(matrix, value) ==
    LET sequence == as_sequence(value)
    IN  IF ~sequence.some THEN None
        ELSE IF sequence.value = <<>> THEN None
        ELSE IF ~as_str(sequence.value[1]).some THEN None
        ELSE LET trans_type == as_str(sequence.value[1]).value
                 targs == as_vec_f64(Tail(sequence.value))
             IN  IF ~targs.some THEN targs
                 ELSE IF trans_type \notin TransformNames THEN Some(matrix)
                 ELSE IF ~Three(targs.value).some THEN Panic
                 ELSE CASE trans_type = "translate" ->
                             Some(translation(matrix, targs.value[1], targs.value[2],
                                              targs.value[3]))
                        [] trans_type = "scale" ->
                             Some(scaling(matrix, targs.value[1], targs.value[2],
                                          targs.value[3]))

RECURSIVE TransformLoop(_, _)
TransformLoop(matrix, transform) ==
    IF transform = <<>> THEN Some(matrix)
    ELSE LET step == ApplyTransform(matrix, Head(transform))
         IN  IF ~step.some THEN step ELSE TransformLoop(step.value, Tail(transform))

get_transform(shape_config) ==
    LET transform == AndThen(get_value_by_key(shape_config, "transform"), as_sequence)
    IN  IF ~transform.some THEN None ELSE TransformLoop(identity, transform.value)

\* the keys of a material that take one number
MaterialNumbers ==
    {"ambient", "diffuse", "specular", "shininess", "reflective", "transparency",
     "refractive-index"}

\* one arm of the match of get_material
ApplyMaterial(material, key, value) ==
    IF key = "color"
    THEN LET color == AndThen(as_sequence(value), as_vec_f64)
         IN  IF ~color.some THEN color
             ELSE IF ~Three(color.value).some THEN Panic
             ELSE Some(set_color(material,
                           Color(color.value[1], color.value[2], color.value[3])))
    ELSE IF key \in MaterialNumbers
    THEN IF ~as_f64(value).some THEN None
         ELSE Some(CASE key = "ambient" -> set_ambient(material, as_f64(value).value)
                     [] key = "diffuse" -> [material EXCEPT !.diffuse = as_f64(value).value]
                     [] key = "specular" -> [material EXCEPT !.specular = as_f64(value).value]
                     [] key = "shininess" ->
                          [material EXCEPT !.shininess = as_f64(value).value \div Unit]
                     [] key = "reflective" -> set_reflective(material, as_f64(value).value)
                     [] key = "transparency" ->
                          set_transparency(material, as_f64(value).value)
                     [] key = "refractive-index" ->
                          set_refractive_index(material, as_f64(value).value))
    ELSE Some(material)

RECURSIVE MaterialLoop(_, _, _)
\* the loop of get_material over the keys not yet visited; the arms write
\* different fields, so the order of the keys does not show in the result
MaterialLoop(material, mapping, keys) ==
    IF keys = {} THEN Some(material)
    ELSE LET key == CHOOSE k \in keys : TRUE
             step == ApplyMaterial(material, key, mapping[key])
         IN  IF ~step.some THEN step
             ELSE MaterialLoop(step.value, mapping, keys \ {key})

get_material(shape_config) ==
    LET mapping == AndThen(get_value_by_key(shape_config, "material"), as_mapping)
    IN  IF ~mapping.some THEN None
        ELSE MaterialLoop(MaterialDefault, mapping.value, DOMAIN mapping.value)

\* the kinds get_shape_from_config knows
ShapeKinds == {"sphere", "plane", "cube", "cylinder", "cone"}

\* generate_shape::<T>(transform, material)
generate_shape(kind, transform, material) ==
    [kind |-> kind,
     transform |-> IF transform.some THEN transform.value ELSE identity,
     material |-> IF material.some THEN material.value ELSE MaterialDefault]

get_shape_from_config(config) ==
    LET variant == AndThen(get_value_by_key(config, "add"), as_str)
        transform == get_transform(config)
        material == get_material(config)
    IN  IF ~variant.some THEN variant
        ELSE IF transform.panic \/ material.panic THEN Panic
        ELSE IF variant.value \in ShapeKinds
        THEN Some(generate_shape(variant.value, transform, material))
        ELSE None

\* an objects.push that puts the new shape in front
PushFront(objects, shape) == <<shape>> \o objects

\* objects.push(shape)
Push(objects, shape) == Append(objects, shape)

\* what parse_config gives back
ParseOk(cam, w) ==
    [ok |-> TRUE, panic |-> FALSE, camera |-> cam, world |-> w]

ParseErr(context) == [ok |-> FALSE, panic |-> FALSE, error |-> context]

ParsePanic == [ok |-> FALSE, panic |-> TRUE, error |-> "panic"]

RECURSIVE ParseLoop(_, _, _, _)
\* the loop of parse_config over the rest of the sequence, and what follows
ParseLoop(rest, cam, light, objects) ==
    IF rest = <<>>
    THEN IF ~light.some THEN ParseErr("Light is required")
         ELSE IF ~cam.some THEN ParseErr("Camera is required")
         ELSE ParseOk(cam.value, World(light.value, objects))
    ELSE LET value == Head(rest)
             item == IF value.tag = "mapping"
                     THEN get_value_by_key(value.fields, "add") ELSE None
         IN  IF ~item.some \/ ~as_str(item.value).some
             THEN ParseLoop(Tail(rest), cam, light, objects)
             ELSE IF item.value.s = "camera"
             THEN LET c == get_camera_from_config(value.fields)
                  IN  IF c.panic THEN ParsePanic
                      ELSE ParseLoop(Tail(rest), c, light, objects)
             ELSE IF item.value.s = "light"
             THEN LET l == get_light_from_config(value.fields)
                  IN  IF l.panic THEN ParsePanic
                      ELSE ParseLoop(Tail(rest), cam, l, objects)
             ELSE LET shape == get_shape_from_config(value.fields)
                  IN  IF shape.panic THEN ParsePanic
                      ELSE IF ~shape.some THEN ParseErr("Can't parse shape from config")
                      ELSE ParseLoop(Tail(rest), cam, light, Push(objects, shape.value))

parse_config(config) ==
    IF ~as_sequence(config).some THEN ParseErr("config should be a sequence")
    ELSE ParseLoop(config.items, None, None, <<>>)

(***************************************************************************)
(* parse_config called on a configuration                                   *)
(***************************************************************************)
MaxEntries == 4

Vec3(x, y, z) == YSeq(<<x, y, z>>)

CameraEntry ==
    YMap([add |-> YStr("camera"), width |-> YInt(4), height |-> YInt(2),
          from |-> Vec3(YInt(0 - 3), YInt(1), YFloat(250)),
          to |-> Vec3(YInt(0), YFloat(50), YInt(0)),
          up |-> Vec3(YInt(0), YInt(1), YInt(0))]
         @@ ("field-of-view" :> YFloat(78)))

\* a camera entry without its width
CameraNoWidth ==
    YMap([f \in DOMAIN CameraEntry.fields \ {"width"} |-> CameraEntry.fields[f]])

LightEntry(x) ==
    YMap([add |-> YStr("light"), at |-> Vec3(YFloat(x), YFloat(490), YInt(0 - 1)),
          intensity |-> Vec3(YInt(1), YInt(1), YInt(1))])

\* a light whose position has two coordinates
LightShort ==
    YMap([add |-> YStr("light"), at |-> YSeq(<<YInt(1), YInt(2)>>),
          intensity |-> Vec3(YInt(1), YInt(1), YInt(1))])

SphereEntry == YMap([add |-> YStr("sphere")])

PlaneEntry ==
    YMap([add |-> YStr("plane"),
          material |-> YMap([color |-> Vec3(YInt(1), YFloat(50), YInt(0)),
                             ambient |-> YFloat(2), specular |-> YInt(0)])])

CubeEntry ==
    YMap([add |-> YStr("cube"),
          transform |-> YSeq(<<YSeq(<<YStr("scale"), YInt(2), YInt(2), YInt(2)>>),
                               YSeq(<<YStr("translate"), YFloat(50), YInt(1), YInt(0)>>)>>),
          material |-> YMap([shininess |-> YInt(50)])])

\* a kind get_shape_from_config does not know
TorusEntry == YMap([add |-> YStr("torus")])

Entries ==
    { CameraEntry, CameraNoWidth, LightEntry(0 - 490), LightEntry(Unit), LightShort,
      SphereEntry, PlaneEntry, CubeEntry, TorusEntry, YStr("scene") }

\* a transform whose translate has a string among its numbers
SphereTranslateText ==
    YMap([add |-> YStr("sphere"),
          transform |-> YSeq(<<YSeq(<<YStr("translate"), YInt(1), YStr("up"), YInt(0)>>)>>)])

\* a transform whose translate has two arguments
SphereTranslateShort ==
    YMap([add |-> YStr("sphere"),
          transform |-> YSeq(<<YSeq(<<YStr("translate"), YInt(1), YInt(2)>>)>>)])

\* a material whose color has a string among its numbers
PlaneColorText ==
    YMap([add |-> YStr("plane"),
          material |-> YMap([color |-> Vec3(YInt(1), YStr("red"), YInt(0))])])

\* a material whose ambient is a string
PlaneAmbientText ==
    YMap([add |-> YStr("plane"), material |-> YMap([ambient |-> YStr("high")])])

MalformedEntries ==
    { SphereTranslateText, SphereTranslateShort, PlaneColorText, PlaneAmbientText }

\* a camera, a light and one more entry, malformed or not, in any order
MalformedConfigs ==
    { YSeq(s) : s \in { t \in [1..3 -> {CameraEntry, LightEntry(Unit), SphereEntry}
                                          \cup MalformedEntries] :
                          \E i \in 1..3 : t[i] \in MalformedEntries } }

Configs ==
    { YSeq(s) : s \in UNION { [1..n -> Entries] : n \in 0..MaxEntries } }
        \cup { YMap([add |-> YStr("camera")]) }
        \cup MalformedConfigs

InitLoader ==
    /\ OthersOff
    /\ cpc = "start"
    /\ result = <<>>
    /\ call = "parse_config"
    /\ args \in { [config |-> c] : c \in Configs }

\* parse_config(config) returns Ok or Err
LoaderReturns ==
    /\ cpc = "start"
    /\ call = "parse_config"
    /\ ~parse_config(args.config).panic
    /\ Returns(parse_config(args.config))

\* parse_config(config) panics
LoaderPanics ==
    /\ cpc = "start"
    /\ call = "parse_config"
    /\ parse_config(args.config).panic
    /\ Panics

NextLoader ==
    \/ LoaderReturns
    \/ LoaderPanics

SpecLoader == InitLoader /\ [][NextLoader]_vars

(***************************************************************************)
(* Cylinder and Cone                                                        *)
(***************************************************************************)
\* f64::INFINITY, which only comparisons meet here
Infinity == 100000000

Cylinder(minimum, maximum, closed) ==
    [kind |-> "cylinder", transform |-> identity, minimum |-> minimum,
     maximum |-> maximum, closed |-> closed]

Cone(minimum, maximum, closed) ==
    [kind |-> "cone", transform |-> identity, minimum |-> minimum,
     maximum |-> maximum, closed |-> closed]

\* fuzzy_equal
fuzzy_equal(a, b) == FLt(FAbs(FSub(a, b)), EPSILON)

\* Cylinder::check_cap; the cone compares with y^2 in place of 1
check_cap(ray, t, limit) ==
    LET x == FAdd(ray.origin.x, FMul(t, ray.direction.x))
        z == FAdd(ray.origin.z, FMul(t, ray.direction.z))
    IN  FLe(FAdd(Powf(x, 2), Powf(z, 2)), limit)

\* intersect_caps: what it pushes
intersect_caps(shape, ray) ==
    IF ~shape.closed \/ fuzzy_equal(ray.direction.y, 0) THEN <<>>
    ELSE LET tlo == FDiv(FSub(shape.minimum, ray.origin.y), ray.direction.y)
             thi == FDiv(FSub(shape.maximum, ray.origin.y), ray.direction.y)
             llo == IF shape.kind = "cone" THEN Powf(shape.minimum, 2) ELSE Unit
             lhi == IF shape.kind = "cone" THEN Powf(shape.maximum, 2) ELSE Unit
         IN  (IF check_cap(ray, tlo, llo) THEN <<Intersection(tlo, shape)>> ELSE <<>>)
                \o (IF check_cap(ray, thi, lhi) THEN <<Intersection(thi, shape)>> ELSE <<>>)

\* the roots of the quadratic that lie between minimum and maximum; the
\* value "none" stands for the early return of None on a negative
\* discriminant
Walls(shape, ray, a, b, c) ==
    LET disc == FSub(Powf(b, 2), FMul(FMul(4 * Unit, a), c))
        r0 == FDiv(FSub(FNeg(b), FSqrt(disc)), FMul(2 * Unit, a))
        r1 == FDiv(FAdd(FNeg(b), FSqrt(disc)), FMul(2 * Unit, a))
        t0 == IF FGt(r0, r1) THEN r1 ELSE r0
        t1 == IF FGt(r0, r1) THEN r0 ELSE r1
        y0 == FAdd(ray.origin.y, FMul(t0, ray.direction.y))
        y1 == FAdd(ray.origin.y, FMul(t1, ray.direction.y))
    IN  IF FLt(disc, 0) THEN "none"
        ELSE (IF FLt(shape.minimum, y0) /\ FLt(y0, shape.maximum)
              THEN <<Intersection(t0, shape)>> ELSE <<>>)
                \o (IF FLt(shape.minimum, y1) /\ FLt(y1, shape.maximum)
                    THEN <<Intersection(t1, shape)>> ELSE <<>>)

\* the a of the cylinder: direction.x^2 + direction.z^2
CylinderA(ray) == FAdd(Powf(ray.direction.x, 2), Powf(ray.direction.z, 2))

\* Cylinder::local_intersect: None is the empty vector
CylinderLocalIntersect(shape, ray) ==
    IF FLe(CylinderA(ray), 0) THEN intersect_caps(shape, ray)
    ELSE LET b == FAdd(FMul(FMul(2 * Unit, ray.origin.x), ray.direction.x),
                       FMul(FMul(2 * Unit, ray.origin.z), ray.direction.z))
             c == FSub(FAdd(Powf(ray.origin.x, 2), Powf(ray.origin.z, 2)), Unit)
             walls == Walls(shape, ray, CylinderA(ray), b, c)
         IN  IF walls = "none" THEN <<>> ELSE walls \o intersect_caps(shape, ray)

\* the a, b and c of the cone
ConeA(ray) ==
    FAdd(FSub(Powf(ray.direction.x, 2), Powf(ray.direction.y, 2)),
         Powf(ray.direction.z, 2))

ConeB(ray) ==
    FAdd(FSub(FMul(FMul(2 * Unit, ray.origin.x), ray.direction.x),
              FMul(FMul(2 * Unit, ray.origin.y), ray.direction.y)),
         FMul(FMul(2 * Unit, ray.origin.z), ray.direction.z))

ConeC(ray) ==
    FAdd(FSub(Powf(ray.origin.x, 2), Powf(ray.origin.y, 2)), Powf(ray.origin.z, 2))

\* Cone::local_intersect: None is the empty vector
ConeLocalIntersect(shape, ray) ==
    LET a == ConeA(ray)
        b == ConeB(ray)
        c == ConeC(ray)
    IN  IF FEq(a, 0) /\ ~FEq(b, 0)
        THEN <<Intersection(FDiv(FNeg(c), FMul(2 * Unit, b)), shape)>>
                \o intersect_caps(shape, ray)
        ELSE IF FLe(0, FAbs(a))
        THEN LET walls == Walls(shape, ray, a, b, c)
             IN  IF walls = "none" THEN <<>> ELSE walls \o intersect_caps(shape, ray)
        ELSE intersect_caps(shape, ray)

(***************************************************************************)
(* Cube                                                                     *)
(***************************************************************************)
\* the crate the cube is taken from: the library (src/ray_tracer) or the
\* binary (src/src)
Cube(crate) == [kind |-> "cube", transform |-> identity, crate |-> crate]

\* numerator * f64::INFINITY
TimesInfinity(numerator) ==
    IF IsNaN(numerator) \/ numerator = 0 THEN NaN
    ELSE IF numerator > 0 THEN Infinity
    ELSE 0 - Infinity

\* Cube::check_axis: the pair (tmin, tmax)
check_axis(origin, direction) ==
    LET tmin_numerator == FSub(0 - Unit, origin)
        tmax_numerator == FSub(Unit, origin)
        tmin == IF FLe(EPSILON, FAbs(direction)) THEN FDiv(tmin_numerator, direction)
                ELSE TimesInfinity(tmin_numerator)
        tmax == IF FLe(EPSILON, FAbs(direction)) THEN FDiv(tmax_numerator, direction)
                ELSE TimesInfinity(tmax_numerator)
    IN  IF FGt(tmin, tmax) THEN <<tmax, tmin>> ELSE <<tmin, tmax>>

\* the three pairs of a ray, for x, y and z
Axes(ray) ==
    << check_axis(ray.origin.x, ray.direction.x),
       check_axis(ray.origin.y, ray.direction.y),
       check_axis(ray.origin.z, ray.direction.z) >>

\* a.partial_cmp(b).unwrap() meets a NaN in tmin_arr or tmax_arr
CubePanics(ray) ==
    \E i \in 1..3 : \E j \in 1..2 : PartialCmp(Axes(ray)[i][j], Axes(ray)[i][j]) = "None"

\* tmin_arr.iter().max_by(..)
CubeTmin(ray) ==
    CHOOSE t \in { Axes(ray)[i][1] : i \in 1..3 } :
        \A i \in 1..3 : PartialCmp(t, Axes(ray)[i][1]) \in {"Greater", "Equal"}

\* tmax_arr.iter().min_by(..)
CubeTmax(ray) ==
    CHOOSE t \in { Axes(ray)[i][2] : i \in 1..3 } :
        \A i \in 1..3 : PartialCmp(t, Axes(ray)[i][2]) \in {"Less", "Equal"}

\* Cube::local_intersect of the library: None is the empty vector
CubeLocalIntersect(shape, ray) ==
    IF FGt(CubeTmin(ray), CubeTmax(ray)) THEN <<>>
    ELSE <<Intersection(CubeTmin(ray), shape), Intersection(CubeTmax(ray), shape)>>

\* Cube::local_intersect of the binary, which has no test of tmin > tmax
CubeLocalIntersectBinary(shape, ray) ==
    <<Intersection(CubeTmin(ray), shape), Intersection(CubeTmax(ray), shape)>>

(***************************************************************************)
(* The comparisons with zero: is_invertible and the local_intersect of the  *)
(* cylinder and the cone called on their own                                *)
(***************************************************************************)
MaxZero == 2

\* direction components from zero to one, a tenth among them
ZeroComponents == {0 - Unit, 0, 10, Unit}

ZeroRays ==
    { Ray(point(ox, 0, 0 - MaxZero * Unit), vector(dx, dy, dz)) :
        ox \in {0, 50}, dx \in ZeroComponents, dy \in ZeroComponents,
        dz \in {0, 10, Unit} }

ZeroShapes ==
    { Cylinder(0 - Infinity, Infinity, FALSE), Cylinder(Unit, 2 * Unit, TRUE),
      Cone(0 - Infinity, Infinity, FALSE), Cone(0 - 50, 50, TRUE) }

\* scalings by one, a tenth and zero along each axis
ZeroTransforms ==
    { scaling(identity, x, y, z) : x \in {0, 10, Unit}, y \in {0, 10, Unit},
                                    z \in {0, 10, Unit, 2 * Unit} }

\* rays from inside, from a face and from outside the cube, along and
\* across the axes
CubeRays ==
    { Ray(point(ox, oy, oz), vector(dx, dy, dz)) :
        ox \in {0, Unit, 2 * Unit}, oy \in {0, 2 * Unit},
        oz \in {0 - MaxZero * Unit, 0},
        dx \in {0 - Unit, 0, Unit}, dy \in {0 - Unit, 0, Unit}, dz \in {0, Unit} }

InitZero ==
    /\ OthersOff
    /\ cpc = "start"
    /\ result = <<>>
    /\ \/ /\ call = "is_invertible"
          /\ args \in { [m |-> m] : m \in ZeroTransforms }
       \/ /\ call = "local_intersect"
          /\ args \in { [shape |-> sh, ray |-> r] : sh \in ZeroShapes, r \in ZeroRays }
       \/ /\ call = "cube_local_intersect"
          /\ args \in { [shape |-> Cube(c), ray |-> r] :
                            c \in {"library", "binary"}, r \in CubeRays }

\* m.is_invertible()
ZeroIsInvertible ==
    /\ cpc = "start"
    /\ call = "is_invertible"
    /\ Returns(is_invertible(args.m))

\* cylinder.local_intersect(&ray)
ZeroCylinderIntersect ==
    /\ cpc = "start"
    /\ call = "local_intersect"
    /\ args.shape.kind = "cylinder"
    /\ Returns(CylinderLocalIntersect(args.shape, args.ray))

\* cone.local_intersect(&ray)
ZeroConeIntersect ==
    /\ cpc = "start"
    /\ call = "local_intersect"
    /\ args.shape.kind = "cone"
    /\ Returns(ConeLocalIntersect(args.shape, args.ray))

\* cube.local_intersect(&ray)
ZeroCubeIntersect ==
    /\ cpc = "start"
    /\ call = "cube_local_intersect"
    /\ IF CubePanics(args.ray) THEN Panics
       ELSE IF args.shape.crate = "library"
       THEN Returns(CubeLocalIntersect(args.shape, args.ray))
       ELSE Returns(CubeLocalIntersectBinary(args.shape, args.ray))

NextZero ==
    \/ ZeroCubeIntersect
    \/ ZeroIsInvertible
    \/ ZeroCylinderIntersect
    \/ ZeroConeIntersect

SpecZero == InitZero /\ [][NextZero]_vars

(***************************************************************************)
(* Canvas::set and Canvas::get called with any coordinates                  *)
(***************************************************************************)
MaxCanvas == 3

Canvases == { CanvasNew(2, 2), CanvasNew(1, 3) }

CanvasColors == { new_white, Color(Unit, 0, 0) }

InitCanvas ==
    /\ camera = Camera(0, 0, 0)
    /\ image \in Canvases
    /\ writes = <<>>
    /\ px = 0
    /\ py = 0
    /\ pc = "off"
    /\ entry = "none"
    /\ stack = <<>>
    /\ ret = new_black
    /\ last = NoLast
    /\ XsOff
    /\ ShapesOff
    /\ workers = <<>>
    /\ world = World(NoLight, <<>>)
    /\ call = "set"
    /\ args = <<>>
    /\ cpc = "ready"
    /\ result = <<>>

\* canvas.set(x, y, &color); args keeps the canvas as it was
CanvasCallSet(x, y, color) ==
    /\ cpc \in {"ready", "returned"}
    /\ args' = [x |-> x, y |-> y, color |-> color, before |-> image]
    /\ IF CanvasSetPanics(image, x, y)
       THEN /\ cpc' = "aborted"
            /\ UNCHANGED image
       ELSE /\ cpc' = "set"
            /\ image' = CanvasSet(image, x, y, color)
    /\ UNCHANGED <<world, camera, writes, px, py, pc, entry, stack, ret, last,
                   xsVars, workers, shapeVars, call, result>>

\* canvas.get(x, y) with the coordinates of the set before it
CanvasCallGet ==
    /\ cpc = "set"
    /\ result' = CanvasGet(image, args.x, args.y)
    /\ cpc' = "returned"
    /\ UNCHANGED <<world, renderVars, xsVars, workers, shapeVars, call, args>>

NextCanvas ==
    \/ \E x \in 0..MaxCanvas, y \in 0..MaxCanvas, color \in CanvasColors :
          CanvasCallSet(x, y, color)
    \/ CanvasCallGet

SpecCanvas == InitCanvas /\ [][NextCanvas]_vars

(***************************************************************************)
(* Properties                                                              *)
(***************************************************************************)
Range(f) == { f[i] : i \in DOMAIN f }

Count(f, e) == Cardinality({ i \in DOMAIN f : f[i] = e })

\* the stack of entered primitives of the claims, as a fold: toggle the
\* primitive of each of the first k entries
ToggleIn(containers, object) ==
    IF \E j \in DOMAIN containers : containers[j].id = object.id
    THEN SelectSeq(containers, LAMBDA c : c.id # object.id)
    ELSE Append(containers, object)

RECURSIVE StackAfter(_, _)
StackAfter(data, k) ==
    IF k = 0 THEN <<>> ELSE ToggleIn(StackAfter(data, k - 1), data[k].object)

IndexOnTop(containers) ==
    IF Len(containers) = 0 THEN Unit
    ELSE containers[Len(containers)].material.refractive_index

\* the first entry of data that the walk takes for the target
FirstEqual(data, k) ==
    CHOOSE m \in 1..k : /\ data[m].t = data[k].t
                        /\ data[m].object.id = data[k].object.id
                        /\ \A j \in 1..(m - 1) :
                              ~(data[j].t = data[k].t
                                /\ data[j].object.id = data[k].object.id)

ExamplePairs ==
    <<<<100, 150>>, <<150, 200>>, <<200, 250>>,
      <<250, 250>>, <<250, 150>>, <<150, 100>>>>

\* C1: the nested color_at calls count down: every call made through
\* reflected_color or refracted_color was made with remaining >= 1 and
\* received remaining - 1, so at most remaining + 1 calls are ever nested
C1_DepthBounded ==
    /\ \A i \in 2..Len(stack) :
          /\ stack[i - 1].remaining >= 1
          /\ stack[i].remaining = stack[i - 1].remaining - 1
    /\ \A i \in 1..Len(stack) : stack[i].remaining >= 0
    /\ Len(stack) > 0 => Len(stack) <= stack[1].remaining + 1

\* two facing fully reflective planes, the call nested as deep as it goes
C1_Witness ==
    /\ Len(stack) = RenderDepth + 1
    /\ Len(world.objects) = 2
    /\ \A i \in 1..2 : world.objects[i].material.reflective = Unit
    /\ world.objects[1].transform # world.objects[2].transform

C3_NoLightOrEmptyIsBlack ==
    (entry = "render" /\ (~world.light.some \/ world.objects = <<>>)) =>
        /\ pc # "aborted"
        /\ \A i \in DOMAIN writes : writes[i] > 0 => image.pixels[i] = new_black

\* C4: hit returns the entry with the smallest t > 0 of the vector supplied,
\* in whatever order it was supplied, and None when no t is > 0
C4_HitSmallestPositive ==
    xpc = "hit" =>
        /\ IF \E i \in DOMAIN xin : FGt(xin[i].t, 0)
           THEN /\ xhit \in DOMAIN xdata
                /\ xdata[xhit] \in Range(xin)
                /\ FGt(xdata[xhit].t, 0)
                /\ \A i \in DOMAIN xin :
                      FGt(xin[i].t, 0) => xdata[xhit].t <= xin[i].t
           ELSE xhit = 0
        /\ xin = HitExample => xdata[xhit].t = 2 * Unit

C4_Witness ==
    /\ xpc = "hit"
    /\ xin = HitExample
    /\ xdata[xhit].t = 2 * Unit

\* C5: an Intersections built by new or by intersect_world is non-decreasing
\* in t and holds exactly the intersections supplied, for intersect_world
\* those of all the primitives of the world together
C5_SortedAndComplete ==
    xpc \in {"constructed", "hit", "prepared"} =>
        /\ \A i \in 1..(Len(xdata) - 1) : FLe(xdata[i].t, xdata[i + 1].t)
        /\ Len(xdata) = Len(xin)
        /\ \A e \in Range(xin) \cup Range(xdata) : Count(xdata, e) = Count(xin, e)
        /\ xmode = "intersect_world" =>
              \A e \in Range(xdata) \cup
                       UNION { Range(ShapeIntersect(world.objects[i], xray)) :
                                 i \in DOMAIN world.objects } :
                  Count(xdata, e) =
                      Cardinality({ i \in DOMAIN world.objects :
                                      e \in Range(ShapeIntersect(world.objects[i], xray)) })

\* intersect_world on two planes met out of order
C5_Witness ==
    /\ xpc = "constructed"
    /\ xmode = "intersect_world"
    /\ Len(xdata) = 2
    /\ xin # xdata
    /\ xdata[1].t < xdata[2].t

\* C6: with remaining = 0 reflected_color and refracted_color return black
\* and call color_at no further, whatever the material
C6_DepthZeroIsBlack ==
    \A i \in 1..Len(stack) :
        stack[i].remaining = 0 =>
            /\ stack[i].stage \notin {"await_reflected", "await_refracted"}
            /\ i = Len(stack)
            /\ stack[i].stage \in {"refracted_color", "combine"} =>
                  stack[i].reflected = new_black
            /\ stack[i].stage = "combine" => stack[i].refracted = new_black

\* both have returned, on a material that reflects and transmits
C6_Witness ==
    /\ Len(stack) > 0
    /\ Top.remaining = 0
    /\ Top.stage = "combine"
    /\ Top.comps.object.material.reflective > 0
    /\ Top.comps.object.material.transparency > 0

\* the slots render has written when it is at pixel (px, py)
SlotsWritten == { y * camera.hsize + x + 1 : x \in 0..(camera.hsize - 1),
                                             y \in 0..(camera.vsize - 1) }
                  \cap 1..(py * camera.hsize + px)

\* C7: render returns a canvas of hsize by vsize whose pixel (x, y) was
\* written exactly once, with color_at(ray_for_pixel(x, y), 5); no write
\* lands in the slot of another pixel
C7_RenderWritesEachPixelOnce ==
    /\ (entry = "render" /\ pc # "aborted") =>
          /\ image.width = camera.hsize
          /\ image.height = camera.vsize
          /\ Len(image.pixels) = camera.hsize * camera.vsize
          /\ \A i \in DOMAIN writes :
                writes[i] = IF i \in SlotsWritten THEN 1 ELSE 0
    /\ pc = "done" =>
          \A x \in 0..(camera.hsize - 1), y \in 0..(camera.vsize - 1) :
              LET c == ColorAtOp(world, RayForPixel(camera, x, y), RenderDepth)
              IN  /\ c.ok
                  /\ writes[y * camera.hsize + x + 1] = 1
                  /\ image.pixels[y * camera.hsize + x + 1] = c.color

\* a finished render whose rows differ
C7_Witness ==
    /\ pc = "done"
    /\ image.pixels[1] # new_black
    /\ image.pixels[1] # image.pixels[Len(image.pixels)]
    /\ image.pixels[camera.hsize + 1] = new_black

\* the pixels a partitioned render has stored
Stored == { p \in (0..(camera.hsize - 1)) \X (0..(camera.vsize - 1)) :
              \A w \in 1..NWorkers :
                  /\ p \notin workers[w].todo
                  /\ ~(workers[w].pc = "pixel" /\ p = <<workers[w].x, workers[w].y>>) }

C9_PlacedIdsUnique ==
    /\ \A i, j \in DOMAIN placed : i # j => placed[i].id # placed[j].id
    /\ \A i, j \in DOMAIN world.objects :
          i # j => world.objects[i].id # world.objects[j].id

FirstPositive(xs) ==
    IF \E i \in DOMAIN xs : FGt(xs[i].t, 0)
    THEN CHOOSE i \in DOMAIN xs :
            /\ FGt(xs[i].t, 0)
            /\ \A j \in DOMAIN xs : FGt(xs[j].t, 0) =>
                  (xs[i].t < xs[j].t \/ (xs[i].t = xs[j].t /\ i <= j))
    ELSE 0

FirstNonNegative(xs) ==
    IF \E i \in DOMAIN xs : FLe(0, xs[i].t)
    THEN CHOOSE i \in DOMAIN xs :
            /\ FLe(0, xs[i].t)
            /\ \A j \in DOMAIN xs : FLe(0, xs[j].t) =>
                  (xs[i].t < xs[j].t \/ (xs[i].t = xs[j].t /\ i <= j))
    ELSE 0

\* the frame color_at has just prepared the computations of
JustPrepared ==
    /\ pc = "color_at"
    /\ Top.stage = "reflected_color"

\* C10 as claimed: color_at shades the intersection with the smallest
\* t >= 0 and returns black unshaded only when no t is >= 0
C10_ShadesSmallestNonNegative ==
    /\ last.hit = FirstNonNegative(last.xs)
    /\ JustPrepared => Top.comps.t = last.xs[FirstNonNegative(last.xs)].t

\* C10 as amended: color_at shades the intersection with the smallest t > 0
\* of all the intersections of the ray with the world, its n1 and n2 taken
\* from the whole list, and returns black unshaded exactly when no t is > 0
C10_ShadesSmallestPositive ==
    /\ last.hit = FirstPositive(last.xs)
    /\ last.xs = IntersectWorld(world, last.ray)
    /\ JustPrepared =>
          /\ last.hit # 0
          /\ last.ray = Top.ray
          /\ Top.comps.t = last.xs[last.hit].t
          /\ Top.comps.object = last.xs[last.hit].object
          /\ Top.comps.n1 = IndexOnTop(StackAfter(last.xs, last.hit - 1))
          /\ Top.comps.n2 = IndexOnTop(StackAfter(last.xs, last.hit))

\* a ray that starts on one plane (t = 0) and is shaded on the next, inside
\* the first
C10_Witness ==
    /\ JustPrepared
    /\ last.hit = 2
    /\ last.xs[1].t = 0
    /\ Top.comps.n1 # Unit

\* C11: Matrix::inverse panics exactly when the determinant is 0 and
\* otherwise returns the 4 x 4 matrix whose product with its argument is the
\* identity; intersect and normal_at on a primitive whose transform has
\* determinant 0 panic too, and return otherwise
C11_InversePanicsIffSingular ==
    /\ (call = "inverse" /\ cpc = "aborted") => FEq(determinant(args.m), 0)
    /\ (call = "inverse" /\ cpc = "returned") =>
          /\ ~FEq(determinant(args.m), 0)
          /\ Len(result) = 4
          /\ \A row \in 1..4 : Len(result[row]) = 4
          /\ MatrixMul(args.m, result) = identity
    /\ (call \in {"intersect", "normal_at"} /\ cpc # "start") =>
          (cpc = "aborted" <=> FEq(determinant(args.shape.transform), 0))
    /\ (call = "intersect_world" /\ cpc = "returned") =>
          \A i \in DOMAIN args.objects :
              ~FEq(determinant(args.objects[i].transform), 0)

\* normal_at has panicked on a sphere squashed flat
C11_Witness ==
    /\ call = "normal_at"
    /\ cpc = "aborted"
    /\ args.shape = Sphere(scaling(identity, Unit, 0, Unit))

\* the direction of the ray has zero length
ZeroDirection(ray) == ray.direction = vector(0, 0, 0)

\* the ray, taken into the space of the plane, runs along it
ParallelTo(shape, ray) ==
    /\ shape.kind = "plane"
    /\ FLt(FAbs(RayTransform(ray, inverse(shape.transform)).direction.y), EPSILON)

\* C12: intersect on a primitive (of invertible transform) with a ray of
\* zero-length direction, or with a ray parallel to a plane, returns no
\* intersection and does not abort; so does intersect_world with a ray of
\* zero-length direction
C12_DegenerateRayNoIntersection ==
    /\ (/\ call = "intersect"
        /\ cpc # "start"
        /\ is_invertible(args.shape.transform)
        /\ (ZeroDirection(args.ray) \/ ParallelTo(args.shape, args.ray))) =>
          (cpc = "returned" /\ result = <<>>)
    /\ (/\ call = "intersect_world"
        /\ cpc # "start"
        /\ \A i \in DOMAIN args.objects : is_invertible(args.objects[i].transform)
        /\ ZeroDirection(args.ray)) =>
          (cpc = "returned" /\ result = <<>>)

\* C13: lighting with in_shadow = true returns the ambient term alone: the
\* colour of the material times the intensity of the light times ambient,
\* whatever the eye, the normal, the light position, diffuse, specular and
\* shininess
C13_ShadowIsAmbientOnly ==
    (call = "lighting" /\ cpc # "start" /\ args.in_shadow) =>
        /\ cpc = "returned"
        /\ result = ColorScale(ColorMul(args.material.color, args.light.intensity),
                               args.material.ambient)

\* in shadow, where the same call out of shadow would add diffuse and
\* specular light
C13_Witness ==
    /\ call = "lighting"
    /\ cpc = "returned"
    /\ args.in_shadow
    /\ Lighting(args.material, args.light, args.point, args.eyev, args.normalv, FALSE)
          # result
    /\ args.material.diffuse > 0
    /\ args.material.specular > 0

\* the distance from the point to the light, and what the shadow ray meets
ShadowDistance == Magnitude(FSub(args.world.light.position, args.point))

ShadowXs == IntersectWorldVec(args.world, ShadowRay(args.world, args.point))

\* a primitive lies strictly between the point and the light
Between(object) ==
    LET l == args.world.light.position
        p == object.transform
    IN  \/ args.point < p /\ p < l
        \/ l < p /\ p < args.point

\* C14: is_shadowed(point) is true if and only if the ray from the point
\* toward the light has a hit (smallest t > 0) with t strictly less than the
\* distance to the light; primitives behind the light or behind the point
\* cast no shadow
C14_ShadowedIffHitBeforeLight ==
    (call = "is_shadowed" /\ cpc = "returned") =>
        /\ result = (/\ FirstPositive(ShadowXs) # 0
                     /\ ShadowXs[FirstPositive(ShadowXs)].t < ShadowDistance)
        /\ result = (\E i \in DOMAIN args.world.objects : Between(args.world.objects[i]))

\* a primitive between the point and the light casts the shadow while
\* another one lies beyond the light
C14_Witness ==
    /\ call = "is_shadowed"
    /\ cpc = "returned"
    /\ result = TRUE
    /\ \E i \in DOMAIN args.world.objects : ~Between(args.world.objects[i])
    /\ Hit(IntersectionsNew(ShadowXs)) # 0

\* the three terms shade_hit combines, for the arguments of the call
ShadeSurface == SurfaceColor(args.world, args.comps)

ShadeReflected == ReflectedColorOp(args.world, args.comps, args.remaining).color

ShadeRefracted == RefractedColorOp(args.world, args.comps, args.remaining).color

ShadeSum == ColorAdd(ColorAdd(ShadeSurface, ShadeReflected), ShadeRefracted)

ShadeBlend ==
    LET R == Schlick(args.comps)
    IN  ColorAdd(ColorAdd(ShadeSurface, ColorScale(ShadeReflected, R)),
                 ColorScale(ShadeRefracted, FSub(Unit, R)))

BothReflectiveAndTransparent ==
    /\ args.comps.object.material.reflective > 0
    /\ args.comps.object.material.transparency > 0

\* C15: shade_hit returns surface + reflected * R + refracted * (1 - R), with
\* R = schlick(), exactly when the material has reflective > 0 and
\* transparency > 0; in every other case surface + reflected + refracted
C15_SchlickBlendIffBoth ==
    (call = "shade_hit" /\ cpc = "returned") =>
        result = IF BothReflectiveAndTransparent THEN ShadeBlend ELSE ShadeSum

\* a hit on a reflective and transparent material whose blend differs from
\* the plain sum
C15_Witness ==
    /\ call = "shade_hit"
    /\ cpc = "returned"
    /\ BothReflectiveAndTransparent
    /\ ShadeBlend # ShadeSum
    /\ result = ShadeBlend

\* cos = eyev . normalv and (n1/n2)^2 * (1 - cos^2) for the arguments of the
\* call
SchlickCos == FMul(args.eyev, args.normalv)

SchlickSin2T ==
    FMul(FMul(FDiv(args.n1, args.n2), FDiv(args.n1, args.n2)),
         FSub(Unit, FMul(SchlickCos, SchlickCos)))

\* r0 + (1 - r0) * (1 - cos)^5
SchlickFormula(cos) ==
    LET q == FDiv(FSub(args.n1, args.n2), FAdd(args.n1, args.n2))
        r0 == FMul(q, q)
    IN  FAdd(r0, FMul(FSub(Unit, r0), Powi(FSub(Unit, cos), 5)))

\* C16: schlick returns exactly 1.0 under total internal reflection, that is
\* whenever n1 > n2 and (n1/n2)^2 * (1 - cos^2) > 1; when n1 <= n2 that
\* quantity never exceeds 1 and the result is r0 + (1 - r0) * (1 - cos)^5
C16_SchlickOneUnderTir ==
    (call = "schlick" /\ cpc # "start") =>
        /\ cpc = "returned"
        /\ (args.n1 > args.n2 /\ SchlickSin2T > Unit) => result = Unit
        /\ args.n1 <= args.n2 =>
              /\ SchlickSin2T <= Unit
              /\ result = SchlickFormula(SchlickCos)

\* total internal reflection at an oblique eye vector
C16_Witness ==
    /\ call = "schlick"
    /\ cpc = "returned"
    /\ args.n1 > args.n2
    /\ SchlickSin2T > Unit
    /\ SchlickCos > 0
    /\ result = Unit

\* the ray of the call in the space of the sphere, and its discriminant
\* b^2 - 4ac
LocalRay == RayTransform(args.ray, inverse(args.shape.transform))

Discriminant ==
    LET o == TupleSub(LocalRay.origin, point(0, 0, 0))
        d == LocalRay.direction
        a == TupleDot(d, d)
        b == FMul(2 * Unit, TupleDot(d, o))
        c == FSub(TupleDot(o, o), Unit)
    IN  FSub(FMul(b, b), FMul(FMul(4 * Unit, a), c))

SphereCall == call = "intersect" /\ cpc = "returned" /\ args.shape.kind = "sphere"

\* the three rays of the examples, toward +z from z = -5
ExampleRay(y) == Ray(point(0, y, 0 - 5 * Unit), vector(0, 0, Unit))

TsOf(xs) == [i \in DOMAIN xs |-> xs[i].t]

\* C17: Sphere local_intersect returns no intersection exactly when the
\* discriminant is negative, and otherwise exactly two intersections
\* t1 <= t2 that both refer to the sphere; on the unit sphere the ray from
\* (0,0,-5) toward +z gives 4 and 6, from (0,1,-5) gives 5 and 5, from
\* (0,2,-5) gives none
C17_SphereTwoOrderedOrNone ==
    SphereCall =>
        /\ (result = <<>>) = FLt(Discriminant, 0)
        /\ result # <<>> =>
              /\ Len(result) = 2
              /\ FLe(result[1].t, result[2].t)
              /\ result[1].object = args.shape
              /\ result[2].object = args.shape
        /\ args.shape.transform = identity =>
              /\ args.ray = ExampleRay(0) => TsOf(result) = <<4 * Unit, 6 * Unit>>
              /\ args.ray = ExampleRay(Unit) => TsOf(result) = <<5 * Unit, 5 * Unit>>
              /\ args.ray = ExampleRay(2 * Unit) => result = <<>>

\* what color_at returns for the arguments of the call: black without a hit,
\* otherwise what shade_hit returns for the hit, component for component
ColorAtExpected ==
    LET xs == IntersectWorld(args.world, args.ray)
        h == Hit(xs)
    IN  IF h = 0 THEN new_black
        ELSE ShadeHitOp(args.world, PrepareComputations(xs[h], args.ray, xs),
                        args.remaining).color

\* C18: colours are clamped only at the final conversion: shade_hit and
\* color_at return the sum of their terms with components above 1 left as
\* they are, while the conversion to RGB maps every component to an integer
\* in 0..255, 255 for components >= 1 and 0 for components <= 0
C18_ClampOnlyAtConversion ==
    /\ (call = "shade_hit" /\ cpc = "returned") =>
          result = ColorAdd(ColorAdd(ShadeSurface,
                       IF BothReflectiveAndTransparent
                       THEN ColorScale(ShadeReflected, Schlick(args.comps))
                       ELSE ShadeReflected),
                       IF BothReflectiveAndTransparent
                       THEN ColorScale(ShadeRefracted, FSub(Unit, Schlick(args.comps)))
                       ELSE ShadeRefracted)
    /\ (call = "color_at" /\ cpc = "returned") => result = ColorAtExpected
    /\ (call = "rgb" /\ cpc # "start") =>
          /\ cpc = "returned"
          /\ \A i \in 1..3 :
                /\ result[i] \in 0..255
                /\ (~IsNaN(args.color[i]) /\ args.color[i] >= Unit) => result[i] = 255
                /\ (~IsNaN(args.color[i]) /\ args.color[i] <= 0) => result[i] = 0
                /\ args.color[i] = 50 => result[i] = 128
                /\ args.color[i] = 10 => result[i] = 26

\* a colour color_at returned with a component above 1, converted to 255
C18_Witness ==
    /\ call = "rgb"
    /\ cpc = "returned"
    /\ \E i \in 1..3 : args.color[i] > Unit /\ result[i] = 255
    /\ args.color \in ColorAtResults

\* the transform that takes pattern space to world space: the transform of
\* the primitive applied after the transform of the pattern
PatternToWorld == MatrixMul(args.shape.transform, args.pattern.transform)

PatternCall(o, p, w) ==
    /\ args.shape.transform = o
    /\ args.pattern.transform = p
    /\ args.point = w

\* C19: pattern evaluation maps the world point into object space with the
\* inverse transform of the primitive, then into pattern space with the
\* inverse transform of the pattern, and then runs the procedural function:
\* the colour of the test pattern is the world point taken through the
\* inverse of (primitive transform * pattern transform)
C19_ObjectThenPatternSpace ==
    (call = "pattern_at_shape" /\ cpc = "returned") =>
        /\ LET p == MatrixMulTuple(inverse(PatternToWorld), args.point)
           IN  result = <<p.x, p.y, p.z>>
        /\ PatternCall(scaling(identity, 2 * Unit, 2 * Unit, 2 * Unit), identity,
                       point(2 * Unit, 3 * Unit, 4 * Unit))
              => result = <<Unit, 150, 2 * Unit>>
        /\ PatternCall(identity, scaling(identity, 2 * Unit, 2 * Unit, 2 * Unit),
                       point(2 * Unit, 3 * Unit, 4 * Unit))
              => result = <<Unit, 150, 2 * Unit>>
        /\ PatternCall(scaling(identity, 2 * Unit, 2 * Unit, 2 * Unit),
                       translation(identity, 50, Unit, 150),
                       point(250, 3 * Unit, 350))
              => result = <<75, 50, 25>>

\* a scaled primitive with a translated pattern, where the order matters
C19_Witness ==
    /\ call = "pattern_at_shape"
    /\ cpc = "returned"
    /\ PatternCall(scaling(identity, 2 * Unit, 2 * Unit, 2 * Unit),
                   translation(identity, 50, Unit, 150),
                   point(250, 3 * Unit, 350))
    /\ result = <<75, 50, 25>>
    /\ result # PatternBeforeObject(args.pattern, args.shape, args.point)

\* the entries of the configuration of the call, and what each one adds
ConfigItems == IF args.config.tag = "sequence" THEN args.config.items ELSE <<>>

AddOf(e) ==
    IF e.tag = "mapping" /\ "add" \in DOMAIN e.fields /\ e.fields["add"].tag = "string"
    THEN e.fields["add"].s
    ELSE ""

Positions(kinds) == { i \in DOMAIN ConfigItems : AddOf(ConfigItems[i]) \in kinds }

RECURSIVE KindsFrom(_)
\* the kinds of the shape entries from position i on, in config order
KindsFrom(i) ==
    IF i > Len(ConfigItems) THEN <<>>
    ELSE IF AddOf(ConfigItems[i]) \in ShapeKinds
    THEN <<AddOf(ConfigItems[i])>> \o KindsFrom(i + 1)
    ELSE KindsFrom(i + 1)

\* one complete camera entry, one complete light entry, and shape entries of
\* known kinds, nothing else
WellFormedConfig ==
    /\ args.config.tag = "sequence"
    /\ Cardinality(Positions({"camera"})) = 1
    /\ Cardinality(Positions({"light"})) = 1
    /\ \A i \in DOMAIN ConfigItems :
          \/ ConfigItems[i] = CameraEntry
          \/ \E x \in {0 - 490, Unit} : ConfigItems[i] = LightEntry(x)
          \/ ConfigItems[i] \in {SphereEntry, PlaneEntry, CubeEntry}

\* the light of the light entry of a well-formed configuration
ExpectedLight ==
    LET e == ConfigItems[CHOOSE i \in Positions({"light"}) : TRUE]
    IN  Light(point(e.fields["at"].items[1].x, 490, 0 - Unit), Color(Unit, Unit, Unit))

ExpectedCamera ==
    LoaderCamera(4, 2, 78,
                 ViewTransform(point(0 - 3 * Unit, Unit, 250), point(0, 50, 0),
                               vector(0, Unit, 0)))

\* C20: parse_config on a sequence that holds a camera entry, a light entry
\* and k shape entries of known kinds returns the camera and a world with
\* that light and exactly k objects in config order; when the camera entry
\* or the light entry is missing it returns an error and no world
C20_ParseConfigCameraLightShapes ==
    (call = "parse_config" /\ cpc # "start") =>
        /\ WellFormedConfig =>
              /\ cpc = "returned"
              /\ result.ok
              /\ result.camera = ExpectedCamera
              /\ result.world.light = ExpectedLight
              /\ Len(result.world.objects) = Cardinality(Positions(ShapeKinds))
              /\ [i \in DOMAIN result.world.objects |-> result.world.objects[i].kind]
                    = KindsFrom(1)
        /\ (Positions({"camera"}) = {} \/ Positions({"light"}) = {}) =>
              /\ cpc = "returned" =>
                    /\ ~result.ok
                    /\ "world" \notin DOMAIN result
              /\ (\A i \in DOMAIN ConfigItems :
                      ConfigItems[i] \notin {LightShort} \cup MalformedEntries)
                    => cpc = "returned"

\* a camera, a light and two shapes of different kinds, parsed
C20_Witness ==
    /\ call = "parse_config"
    /\ cpc = "returned"
    /\ WellFormedConfig
    /\ result.ok
    /\ Len(result.world.objects) = 2
    /\ result.world.objects[1].kind # result.world.objects[2].kind

\* what color_at returns for a ray, one level down
OneLevelDown(ray) == ColorAtOp(args.world, ray, args.remaining - 1)

\* C21: reflected_color returns black when the reflective coefficient is 0;
\* otherwise, with remaining > 0, it returns the colour color_at gives with
\* remaining - 1 for the ray from over_point along reflectv, multiplied by
\* the reflective coefficient
C21_ReflectedColor ==
    (call = "reflected_color" /\ cpc = "returned") =>
        LET reflective == args.comps.object.material.reflective
        IN  /\ reflective = 0 => result = new_black
            /\ (reflective # 0 /\ args.remaining > 0) =>
                  result = ColorScale(
                      OneLevelDown(Ray(args.comps.over_point, args.comps.reflectv)).color,
                      reflective)

\* a half-reflective surface that reflects something
C21_Witness ==
    /\ call = "reflected_color"
    /\ cpc = "returned"
    /\ args.comps.object.material.reflective \notin {0, Unit}
    /\ args.remaining > 0
    /\ result # new_black

\* n1 / n2, the cosine of the incident angle and sin2_t for the computations
\* of the call
NRatio == FDiv(args.comps.n1, args.comps.n2)

CosI == FMul(args.comps.eyev, args.comps.normalv)

RefractSin2T == FMul(FMul(NRatio, NRatio), FSub(Unit, FMul(CosI, CosI)))

\* the refracted direction: normalv * (n_ratio * cos_i - cos_t) - eyev * n_ratio
RefractedDirection ==
    LET cos_t == FSqrt(FSub(Unit, RefractSin2T))
    IN  FSub(FMul(args.comps.normalv, FSub(FMul(NRatio, CosI), cos_t)),
             FMul(args.comps.eyev, NRatio))

\* C22: refracted_color returns black when transparency is 0 and when
\* sin2_t = (n1/n2)^2 * (1 - cos_i^2) exceeds 1, in both cases without a
\* recursive call (so also where the recursive call would abort); otherwise,
\* with remaining > 0, it returns the colour color_at gives with
\* remaining - 1 for the ray from under_point along the refracted direction,
\* multiplied by the transparency
C22_RefractedColor ==
    (call = "refracted_color" /\ cpc # "start") =>
        LET transparency == args.comps.object.material.transparency
        IN  /\ (transparency = 0 \/ (args.remaining > 0 /\ RefractSin2T > Unit)) =>
                  /\ cpc = "returned"
                  /\ result = new_black
            /\ (cpc = "returned" /\ transparency # 0 /\ args.remaining > 0
                  /\ RefractSin2T <= Unit) =>
                  result = ColorScale(
                      OneLevelDown(Ray(args.comps.under_point, RefractedDirection)).color,
                      transparency)

\* total internal reflection on a transparent surface whose refracted ray
\* would have found a colour
C22_Witness ==
    /\ call = "refracted_color"
    /\ cpc = "returned"
    /\ args.comps.object.material.transparency > 0
    /\ args.remaining > 0
    /\ RefractSin2T > Unit
    /\ result = new_black
    /\ RefractedWithoutTirTest(args.world, args.comps, args.remaining) # Ok(new_black)

\* the quantity is not zero, yet within EPSILON of it
NearZero(x) == ~IsNaN(x) /\ x # 0 /\ FAbs(x) < EPSILON

\* the ray of the call with the named direction component set to zero
Flattened(axis) ==
    [args.ray EXCEPT !.direction =
        [args.ray.direction EXCEPT ![axis] = 0]]

\* C23: every comparison of a computed quantity with zero treats a value
\* whose absolute value is below EPSILON as zero: a determinant within
\* EPSILON of zero makes the matrix not invertible, a cylinder's a within
\* EPSILON of zero gives no wall intersections (the caps alone), and a
\* cone's a within EPSILON of zero takes the single-root branch
C23_ZeroComparisonsUseEpsilon ==
    cpc = "returned" =>
        /\ call = "is_invertible" =>
              (FAbs(determinant(args.m)) < EPSILON => result = FALSE)
        /\ (call = "local_intersect" /\ args.shape.kind = "cylinder") =>
              (FAbs(CylinderA(args.ray)) < EPSILON =>
                  result = intersect_caps(args.shape, args.ray))
        /\ (call = "local_intersect" /\ args.shape.kind = "cone") =>
              ((FAbs(ConeA(args.ray)) < EPSILON /\ FAbs(ConeB(args.ray)) >= EPSILON) =>
                  /\ result # <<>>
                  /\ result[1].t = FDiv(FNeg(ConeC(args.ray)),
                                        FMul(2 * Unit, ConeB(args.ray))))

\* the largest of three numbers, none of them NaN
Largest(s) == CHOOSE t \in s : \A u \in s : t >= u

\* the smallest of three numbers, none of them NaN
Smallest(s) == CHOOSE t \in s : \A u \in s : t <= u

\* C24: Cube local_intersect takes the largest per-axis entry value as tmin
\* and the smallest per-axis exit value as tmax; it returns no intersection
\* when tmin > tmax and otherwise exactly the two intersections tmin and
\* tmax with tmin <= tmax: every call returns, and returns one of the two
C24_CubeTwoOrNone ==
    call = "cube_local_intersect" =>
        /\ cpc # "aborted"
        /\ cpc = "returned" =>
              LET tmin == Largest({ Axes(args.ray)[i][1] : i \in 1..3 })
                  tmax == Smallest({ Axes(args.ray)[i][2] : i \in 1..3 })
              IN  IF tmin > tmax THEN result = <<>>
                  ELSE /\ Len(result) = 2
                       /\ result[1].t = tmin
                       /\ result[2].t = tmax
                       /\ result[1].t <= result[2].t

\* the terms of the lighting call: the unit vector to the light, its cosine
\* with the normal, and the cosine of the reflection vector with the eye
LightV == Normalize(FSub(args.light.position, args.point))

LightDotNormal == Dot(LightV, args.normalv)

ReflectDotEye == Dot(FNeg(Reflect(LightV, args.normalv)), args.eyev)

AmbientTerm ==
    ColorScale(ColorMul(args.material.color, args.light.intensity), args.material.ambient)

DiffuseTerm ==
    ColorScale(ColorScale(ColorMul(args.material.color, args.light.intensity),
                          args.material.diffuse), LightDotNormal)

\* C25: lighting with in_shadow = false returns the ambient term alone when
\* the light is behind the surface (normal . light direction < 0), and the
\* ambient and diffuse terms without a specular term when the cosine between
\* the reflection vector and the eye vector is <= 0
C25_LightBehindOrEyeAway ==
    (call = "lighting" /\ cpc # "start" /\ ~args.in_shadow) =>
        /\ cpc = "returned"
        /\ FLt(LightDotNormal, 0) => result = AmbientTerm
        /\ (FLe(0, LightDotNormal) /\ FLe(ReflectDotEye, 0)) =>
              result = ColorAdd(AmbientTerm, DiffuseTerm)

\* out of shadow, the light behind a surface whose material has diffuse and
\* specular light to give, and the eye on the side of the reflection
C25_Witness ==
    /\ call = "lighting"
    /\ cpc = "returned"
    /\ ~args.in_shadow
    /\ FLt(LightDotNormal, 0)
    /\ FGt(ReflectDotEye, 0)
    /\ args.material.diffuse > 0
    /\ args.material.specular > 0
    /\ result = AmbientTerm

\* 1.0 and the refractive indices of the primitives of an intersection list
IndicesOf(xs) == {Unit} \cup { xs[j].object.material.refractive_index : j \in DOMAIN xs }

\* C26: in every ComputedIntersection color_at hands to shade_hit, n1 and n2
\* were assigned by the stack walk: neither is the initial NaN, each is 1.0
\* or the refractive index of a primitive of the intersection list, and the
\* ratio n1 / n2 is defined
C26_IndicesAssigned ==
    /\ \A i \in 1..Len(stack) :
          stack[i].stage # "color_at" =>
              /\ ~IsNaN(stack[i].comps.n1)
              /\ ~IsNaN(stack[i].comps.n2)
              /\ stack[i].comps.n2 # 0
              /\ ~IsNaN(FDiv(stack[i].comps.n1, stack[i].comps.n2))
              /\ {stack[i].comps.n1, stack[i].comps.n2} \subseteq
                    IndicesOf(IntersectWorld(world, stack[i].ray))
    /\ JustPrepared =>
          {Top.comps.n1, Top.comps.n2} \subseteq IndicesOf(last.xs)

\* a refracted ray that leaves the glass it was cast in: n1 is the index of
\* the glass, n2 is 1.0
C26_Witness ==
    /\ JustPrepared
    /\ Len(stack) >= 2
    /\ Top.comps.n1 = 150
    /\ Top.comps.n2 = Unit

\* C27: for every sorted Intersections xs and every index k,
\* prepare_computations on xs[k] takes n1 from the stack obtained by toggling
\* the entries before k and n2 from the stack obtained by toggling the
\* entries up to and including k, also when xs holds another entry with the
\* same t and the same primitive as xs[k]
C27_WalkStopsAtIndex ==
    (xpc = "prepared" /\ ~IsNaN(xdata[xtarget].t)) =>
        /\ xn.n1 = IndexOnTop(StackAfter(xdata, xtarget - 1))
        /\ xn.n2 = IndexOnTop(StackAfter(xdata, xtarget))

\* the coordinates of the pixels of a canvas
PixelsOf(canvas) == (0..(canvas.width - 1)) \X (0..(canvas.height - 1))

\* C28: Canvas::set(x, y, c) followed by get(x, y) returns c and leaves
\* every other pixel unchanged; a set with x >= width or y >= height has
\* modified no pixel of the canvas
C28_SetThenGet ==
    /\ (call = "set" /\ cpc = "returned") =>
          /\ result = args.color
          /\ \A p \in PixelsOf(image) :
                p # <<args.x, args.y>> =>
                    CanvasGet(image, p[1], p[2]) = CanvasGet(args.before, p[1], p[2])
    /\ (call = "set" /\ cpc \in {"set", "returned", "aborted"}
            /\ (args.x >= image.width \/ args.y >= image.height)) =>
          image = args.before

\* C29: parse_config ends with Ok or Err for every config value and never
\* aborts: a transform or material entry with a non-numeric element, or a
\* transform operation with too few arguments, is reported as an error or
\* skipped
C29_ParseNeverAborts ==
    (call = "parse_config" /\ cpc # "start") =>
        /\ cpc = "returned"
        /\ result.ok \in BOOLEAN

\* a step leaves the id of every primitive as it was, and a value returned
\* by set_transform or set_material carries the id of the primitive mutated
IdsKept ==
    /\ Len(prims') >= Len(prims) =>
          \A i \in DOMAIN prims : prims'[i].id = prims[i].id
    /\ (Len(prims') = Len(prims) + 1 /\ \E i \in DOMAIN prims : prims'[i] # prims[i]) =>
          \E i \in DOMAIN prims :
              /\ prims'[Len(prims')] = prims'[i]
              /\ prims'[Len(prims')].id = prims[i].id

\* every intersection kept refers to an object with the id of the primitive
\* that made it, and two of one primitive compare as the same object
IntersectionsKeepId ==
    /\ \A k \in DOMAIN result : result[k].made.object.id = result[k].of
    /\ \A k, l \in DOMAIN result :
          result[k].of = result[l].of =>
              /\ ShapeEq(result[k].made.object, result[l].made.object)
              /\ Contains(<<result[k].made.object>>, result[l].made.object)

\* C30: a primitive's id never changes after construction: after any
\* sequence of set_transform and set_material calls the value returned and
\* the value mutated both carry the original id, every Intersection refers
\* to an object with that id, and two intersections of the same primitive
\* compare as the same object in the refraction stack
C30_IdNeverChanges == [][IdsKept]_vars /\ []IntersectionsKeepId

\* two intersections of one primitive, made before and after a set_transform
\* and a set_material
C30_Witness ==
    /\ Len(result) = 2
    /\ result[1].of = result[2].of
    /\ result[1].made.object.transform # result[2].made.object.transform
    /\ result[1].made.object.material # result[2].made.object.material
    /\ ShapeEq(result[1].made.object, result[2].made.object)

====
